---- MODULE Spec2Model ----
(***************************************************************************)
(* Model of the video-script tool dispatch engine of kamilio/ai-studio     *)
(* (src/video/lib/applyToolCall.ts).  A Script is edited by a sequence of  *)
(* model-emitted tool calls; each call is applied by applyToolCall to the  *)
(* script the previous call produced.                                      *)
(*                                                                         *)
(* JavaScript values of the untyped argument map are modelled as records   *)
(* tagged by their type, so that `typeof` and Array.isArray are real       *)
(* tests; an argument map is a function from the keys it has to values.    *)
(***************************************************************************)
EXTENDS Integers, Sequences, FiniteSets, TLC

(***************************************************************************)
(* Bounds of the model.                                                    *)
(***************************************************************************)
\* longest shot list a script may grow to
MaxShots == 3
\* number of tool calls applied in one run
MaxCalls == 2
\* longest shotIds list passed to reorder_shots
MaxList == 2

(***************************************************************************)
(* Program constants.                                                      *)
(***************************************************************************)
DEFAULT_VIDEO_DURATION == 8

\* AudioSource = "video" | "elevenlabs"
AudioSource == {"video", "elevenlabs"}

\* The tool definitions advertised to the model: function.name, and of
\* function.parameters the properties (type, the items type of an array,
\* the enum; "" and {} where the definition has none) and the required list.
Prop(type) == [type |-> type, items |-> "", enum |-> {}]

UPDATE_SHOT_PROMPT ==
  [name |-> "update_shot_prompt",
   properties |-> [shotId |-> Prop("string"), prompt |-> Prop("string")],
   required |-> {"shotId", "prompt"}]

UPDATE_SHOT_NARRATION ==
  [name |-> "update_shot_narration",
   properties |-> [shotId |-> Prop("string"), enabled |-> Prop("boolean"),
                   text |-> Prop("string"),
                   audioSource |-> [type |-> "string", items |-> "",
                                    enum |-> {"video", "elevenlabs"}]],
   required |-> {"shotId"}]

UPDATE_SHOT_SUBTITLES ==
  [name |-> "update_shot_subtitles",
   properties |-> [shotId |-> Prop("string"), subtitles |-> Prop("boolean")],
   required |-> {"shotId", "subtitles"}]

ADD_SHOT ==
  [name |-> "add_shot",
   properties |-> [title |-> Prop("string"), prompt |-> Prop("string"),
                   afterShotId |-> Prop("string")],
   required |-> {"title", "prompt"}]

DELETE_SHOT ==
  [name |-> "delete_shot",
   properties |-> [shotId |-> Prop("string")],
   required |-> {"shotId"}]

REORDER_SHOTS ==
  [name |-> "reorder_shots",
   properties |-> [shotIds |-> [type |-> "array", items |-> "string",
                                enum |-> {}]],
   required |-> {"shotIds"}]

UPDATE_SCRIPT_SETTINGS ==
  [name |-> "update_script_settings",
   properties |-> [narrationEnabled |-> Prop("boolean"),
                   subtitles |-> Prop("boolean"),
                   globalPrompt |-> Prop("string")],
   required |-> {}]

ToolDefinitions ==
  {UPDATE_SHOT_PROMPT, UPDATE_SHOT_NARRATION, UPDATE_SHOT_SUBTITLES,
   ADD_SHOT, DELETE_SHOT, REORDER_SHOTS, UPDATE_SCRIPT_SETTINGS}

\* the seven tool names of CHAT_TOOLS
CHAT_TOOLS == {t.name : t \in ToolDefinitions}

(***************************************************************************)
(* JavaScript values: Record<string, unknown>.                             *)
(***************************************************************************)
Undefined == [undef |-> TRUE]
Str(x) == [str |-> x]
Bool(x) == [bool |-> x]
Num == [num |-> 7]
Arr(xs) == [arr |-> xs]

\* typeof v (an array is an "object")
TypeOf(v) ==
  CASE "str" \in DOMAIN v -> "string"
    [] "bool" \in DOMAIN v -> "boolean"
    [] "num" \in DOMAIN v -> "number"
    [] "arr" \in DOMAIN v -> "object"
    [] OTHER -> "undefined"
\* Array.isArray(v)
IsArray(v) == "arr" \in DOMAIN v

\* an argument map without keys
NoArgs == [k \in {} |-> Undefined]

\* the argument map with the keys of r whose value is not undefined
MkArgs(r) == [k \in {n \in DOMAIN r : r[n] # Undefined} |-> r[k]]

\* args[name]: reading a key the map lacks gives undefined
Get(args, name) == IF name \in DOMAIN args THEN args[name] ELSE Undefined

(***************************************************************************)
(* Script and Shot.                                                        *)
(***************************************************************************)
Null == "<null>"

ShotIds(shots) == [i \in 1..Len(shots) |-> shots[i].id]

\* generateId(): `${Date.now()}-${Math.random().toString(36).slice(2, 9)}`
generateId(now, rnd) == ToString(now) \o "-" \o rnd

\* makeShot with the narration default hard-coded instead of read from
\* script.settings
makeShot_fixedDefaults(title, prompt, script, id) ==
  [ id |-> id,
    title |-> title,
    prompt |-> prompt,
    narration |-> [ enabled |-> FALSE,
                    text |-> "",
                    audioSource |-> "video" ],
    video |-> [ selectedUrl |-> Null, history |-> <<>> ],
    subtitles |-> script.settings.subtitles,
    duration |-> DEFAULT_VIDEO_DURATION ]

\* makeShot(title, prompt, script) with the generated id passed in
makeShot(title, prompt, script, id) ==
  [ id |-> id,
    title |-> title,
    prompt |-> prompt,
    narration |-> [ enabled |-> script.settings.narrationEnabled,
                    text |-> "",
                    audioSource |-> script.settings.defaultAudio ],
    video |-> [ selectedUrl |-> Null, history |-> <<>> ],
    subtitles |-> script.settings.subtitles,
    duration |-> DEFAULT_VIDEO_DURATION ]

\* Array.prototype.findIndex(s => s.id === id): first match, or -1
FindIndex(shots, id) ==
  IF \E i \in 1..Len(shots) : shots[i].id = id
  THEN (CHOOSE i \in 1..Len(shots) :
          /\ shots[i].id = id
          /\ \A j \in 1..(i - 1) : shots[j].id # id) - 1
  ELSE -1

\* new Map(shots.map(s => [s.id, s])).get(id): a later entry overwrites an
\* earlier one with the same key; <<>> stands for undefined
ShotMapGet(shots, id) ==
  IF \E i \in 1..Len(shots) : shots[i].id = id
  THEN << shots[CHOOSE i \in 1..Len(shots) :
                  /\ shots[i].id = id
                  /\ \A j \in (i + 1)..Len(shots) : shots[j].id # id] >>
  ELSE <<>>

(***************************************************************************)
(* The cases of applyToolCall.                                             *)
(***************************************************************************)
\* update_shot_prompt without the id test of the map callback
update_shot_prompt_allShots(script, args) ==
  IF TypeOf(Get(args, "shotId")) # "string" \/ TypeOf(Get(args, "prompt")) # "string"
  THEN script
  ELSE [script EXCEPT !.shots =
          [i \in 1..Len(script.shots) |->
             [script.shots[i] EXCEPT !.prompt = Get(args, "prompt").str]]]

update_shot_prompt(script, args) ==
  IF TypeOf(Get(args, "shotId")) # "string" \/ TypeOf(Get(args, "prompt")) # "string"
  THEN script
  ELSE [script EXCEPT !.shots =
          [i \in 1..Len(script.shots) |->
             IF script.shots[i].id = Get(args, "shotId").str
             THEN [script.shots[i] EXCEPT !.prompt = Get(args, "prompt").str]
             ELSE script.shots[i]]]

\* update_shot_narration that starts from an empty narration instead of a
\* copy of the shot's narration
update_shot_narration_noSpread(script, args) ==
  IF TypeOf(Get(args, "shotId")) # "string"
  THEN script
  ELSE [script EXCEPT !.shots =
          [i \in 1..Len(script.shots) |->
             IF script.shots[i].id # Get(args, "shotId").str
             THEN script.shots[i]
             ELSE LET n0 == [enabled |-> FALSE, text |-> "", audioSource |-> "video"]
                      n1 == IF TypeOf(Get(args, "enabled")) = "boolean"
                            THEN [n0 EXCEPT !.enabled = Get(args, "enabled").bool]
                            ELSE n0
                      n2 == IF TypeOf(Get(args, "text")) = "string"
                            THEN [n1 EXCEPT !.text = Get(args, "text").str]
                            ELSE n1
                      n3 == IF Get(args, "audioSource") = Str("video")
                               \/ Get(args, "audioSource") = Str("elevenlabs")
                            THEN [n2 EXCEPT !.audioSource = Get(args, "audioSource").str]
                            ELSE n2
                  IN [script.shots[i] EXCEPT !.narration = n3]]]

\* update_shot_narration that takes any string as audioSource
update_shot_narration_anySource(script, args) ==
  IF TypeOf(Get(args, "shotId")) # "string"
  THEN script
  ELSE LET Upd(s) ==
             IF s.id # Get(args, "shotId").str
             THEN s
             ELSE LET n0 == s.narration
                      n1 == IF TypeOf(Get(args, "enabled")) = "boolean"
                            THEN [n0 EXCEPT !.enabled = Get(args, "enabled").bool]
                            ELSE n0
                      n2 == IF TypeOf(Get(args, "text")) = "string"
                            THEN [n1 EXCEPT !.text = Get(args, "text").str]
                            ELSE n1
                      n3 == IF TypeOf(Get(args, "audioSource")) = "string"
                            THEN [n2 EXCEPT !.audioSource =
                                    Get(args, "audioSource").str]
                            ELSE n2
                  IN [s EXCEPT !.narration = n3]
       IN [script EXCEPT !.shots =
             [i \in 1..Len(script.shots) |-> Upd(script.shots[i])]]

update_shot_narration(script, args) ==
  IF TypeOf(Get(args, "shotId")) # "string"
  THEN script
  ELSE [script EXCEPT !.shots =
          [i \in 1..Len(script.shots) |->
             IF script.shots[i].id # Get(args, "shotId").str
             THEN script.shots[i]
             ELSE LET n0 == script.shots[i].narration
                      n1 == IF TypeOf(Get(args, "enabled")) = "boolean"
                            THEN [n0 EXCEPT !.enabled = Get(args, "enabled").bool]
                            ELSE n0
                      n2 == IF TypeOf(Get(args, "text")) = "string"
                            THEN [n1 EXCEPT !.text = Get(args, "text").str]
                            ELSE n1
                      n3 == IF Get(args, "audioSource") = Str("video")
                               \/ Get(args, "audioSource") = Str("elevenlabs")
                            THEN [n2 EXCEPT !.audioSource = Get(args, "audioSource").str]
                            ELSE n2
                  IN [script.shots[i] EXCEPT !.narration = n3]]]

\* update_shot_subtitles that flips the flag of the shot when the argument
\* is true, instead of overwriting it
update_shot_subtitles_toggle(script, args) ==
  IF TypeOf(Get(args, "shotId")) # "string" \/ TypeOf(Get(args, "subtitles")) # "boolean"
  THEN script
  ELSE [script EXCEPT !.shots =
          [i \in 1..Len(script.shots) |->
             IF script.shots[i].id = Get(args, "shotId").str
             THEN [script.shots[i] EXCEPT !.subtitles = (@ # Get(args, "subtitles").bool)]
             ELSE script.shots[i]]]

update_shot_subtitles(script, args) ==
  IF TypeOf(Get(args, "shotId")) # "string" \/ TypeOf(Get(args, "subtitles")) # "boolean"
  THEN script
  ELSE [script EXCEPT !.shots =
          [i \in 1..Len(script.shots) |->
             IF script.shots[i].id = Get(args, "shotId").str
             THEN [script.shots[i] EXCEPT !.subtitles = Get(args, "subtitles").bool]
             ELSE script.shots[i]]]

\* add_shot whose argument check joins the two typeof tests with && instead
\* of ||
add_shot_weakCheck(script, args, id) ==
  IF TypeOf(Get(args, "title")) # "string" /\ TypeOf(Get(args, "prompt")) # "string"
  THEN script
  ELSE LET Text(v) == IF TypeOf(v) = "string" THEN v.str ELSE "<not a string>"
           newShot == makeShot(Text(Get(args, "title")),
                               Text(Get(args, "prompt")), script, id)
           idx == IF TypeOf(Get(args, "afterShotId")) = "string"
                  THEN FindIndex(script.shots, Get(args, "afterShotId").str)
                  ELSE -1
       IN IF idx # -1
          THEN [script EXCEPT !.shots =
                  SubSeq(script.shots, 1, idx + 1) \o <<newShot>>
                    \o SubSeq(script.shots, idx + 2, Len(script.shots))]
          ELSE [script EXCEPT !.shots = Append(script.shots, newShot)]

\* add_shot that slices at idx instead of idx + 1 (inserts before the shot)
add_shot_before(script, args, id) ==
  IF TypeOf(Get(args, "title")) # "string" \/ TypeOf(Get(args, "prompt")) # "string"
  THEN script
  ELSE LET newShot == makeShot(Get(args, "title").str, Get(args, "prompt").str, script, id)
           idx == IF TypeOf(Get(args, "afterShotId")) = "string"
                  THEN FindIndex(script.shots, Get(args, "afterShotId").str)
                  ELSE -1
       IN IF idx # -1
          THEN [script EXCEPT !.shots =
                  SubSeq(script.shots, 1, idx) \o <<newShot>>
                    \o SubSeq(script.shots, idx + 1, Len(script.shots))]
          ELSE [script EXCEPT !.shots = Append(script.shots, newShot)]

\* add_shot that rejects the call when afterShotId is supplied with a
\* value that is not a string
add_shot_strictAfter(script, args, id) ==
  IF \/ TypeOf(Get(args, "title")) # "string"
     \/ TypeOf(Get(args, "prompt")) # "string"
     \/ TypeOf(Get(args, "afterShotId")) \notin {"string", "undefined"}
  THEN script
  ELSE LET newShot == makeShot(Get(args, "title").str, Get(args, "prompt").str,
                               script, id)
           idx == IF TypeOf(Get(args, "afterShotId")) = "string"
                  THEN FindIndex(script.shots, Get(args, "afterShotId").str)
                  ELSE -1
       IN IF idx # -1
          THEN [script EXCEPT !.shots =
                  SubSeq(script.shots, 1, idx + 1) \o <<newShot>>
                    \o SubSeq(script.shots, idx + 2, Len(script.shots))]
          ELSE [script EXCEPT !.shots = Append(script.shots, newShot)]

add_shot(script, args, id) ==
  IF TypeOf(Get(args, "title")) # "string" \/ TypeOf(Get(args, "prompt")) # "string"
  THEN script
  ELSE LET newShot == makeShot(Get(args, "title").str, Get(args, "prompt").str, script, id)
           idx == IF TypeOf(Get(args, "afterShotId")) = "string"
                  THEN FindIndex(script.shots, Get(args, "afterShotId").str)
                  ELSE -1
       IN IF idx # -1
          THEN [script EXCEPT !.shots =
                  SubSeq(script.shots, 1, idx + 1) \o <<newShot>>
                    \o SubSeq(script.shots, idx + 2, Len(script.shots))]
          ELSE [script EXCEPT !.shots = Append(script.shots, newShot)]

\* delete_shot that truncates the list at the first matching shot
delete_shot_truncate(script, args) ==
  IF TypeOf(Get(args, "shotId")) # "string"
  THEN script
  ELSE LET idx == FindIndex(script.shots, Get(args, "shotId").str)
       IN IF idx = -1
          THEN script
          ELSE [script EXCEPT !.shots = SubSeq(script.shots, 1, idx)]

delete_shot(script, args) ==
  IF TypeOf(Get(args, "shotId")) # "string"
  THEN script
  ELSE LET Keep(s) == s.id # Get(args, "shotId").str
       IN [script EXCEPT !.shots = SelectSeq(script.shots, Keep)]

\* reorder_shots without the length comparison
reorder_shots_noCheck(script, args) ==
  IF ~IsArray(Get(args, "shotIds"))
  THEN script
  ELSE LET IsString(v) == TypeOf(v) = "string"
           Defined(o) == o # <<>>
           strings == SelectSeq(Get(args, "shotIds").arr, IsString)
           mapped == [i \in 1..Len(strings) |->
                        ShotMapGet(script.shots, strings[i].str)]
           found == SelectSeq(mapped, Defined)
           reordered == [i \in 1..Len(found) |-> found[i][1]]
       IN [script EXCEPT !.shots = reordered]

reorder_shots(script, args) ==
  IF ~IsArray(Get(args, "shotIds"))
  THEN script
  ELSE LET IsString(v) == TypeOf(v) = "string"
           Defined(o) == o # <<>>
           strings == SelectSeq(Get(args, "shotIds").arr, IsString)
           mapped == [i \in 1..Len(strings) |->
                        ShotMapGet(script.shots, strings[i].str)]
           found == SelectSeq(mapped, Defined)
           reordered == [i \in 1..Len(found) |-> found[i][1]]
       IN IF Len(reordered) # Len(script.shots)
          THEN script
          ELSE [script EXCEPT !.shots = reordered]

\* update_script_settings that starts from fresh settings instead of a
\* copy of script.settings
update_script_settings_noSpread(script, args) ==
  LET s0 == [narrationEnabled |-> FALSE, subtitles |-> FALSE,
             globalPrompt |-> "", defaultAudio |-> "video"]
      s1 == IF TypeOf(Get(args, "narrationEnabled")) = "boolean"
            THEN [s0 EXCEPT !.narrationEnabled = Get(args, "narrationEnabled").bool]
            ELSE s0
      s2 == IF TypeOf(Get(args, "subtitles")) = "boolean"
            THEN [s1 EXCEPT !.subtitles = Get(args, "subtitles").bool]
            ELSE s1
      s3 == IF TypeOf(Get(args, "globalPrompt")) = "string"
            THEN [s2 EXCEPT !.globalPrompt = Get(args, "globalPrompt").str]
            ELSE s2
  IN [script EXCEPT !.settings = s3]

update_script_settings(script, args) ==
  LET s0 == script.settings
      s1 == IF TypeOf(Get(args, "narrationEnabled")) = "boolean"
            THEN [s0 EXCEPT !.narrationEnabled = Get(args, "narrationEnabled").bool]
            ELSE s0
      s2 == IF TypeOf(Get(args, "subtitles")) = "boolean"
            THEN [s1 EXCEPT !.subtitles = Get(args, "subtitles").bool]
            ELSE s1
      s3 == IF TypeOf(Get(args, "globalPrompt")) = "string"
            THEN [s2 EXCEPT !.globalPrompt = Get(args, "globalPrompt").str]
            ELSE s2
  IN [script EXCEPT !.settings = s3]

\* applyToolCall whose default case falls into the case above it
applyToolCall_fallThrough(script, toolName, args, id) ==
  CASE toolName = "update_shot_prompt" -> update_shot_prompt(script, args)
    [] toolName = "update_shot_narration" -> update_shot_narration(script, args)
    [] toolName = "update_shot_subtitles" -> update_shot_subtitles(script, args)
    [] toolName = "add_shot" -> add_shot(script, args, id)
    [] toolName = "delete_shot" -> delete_shot(script, args)
    [] toolName = "reorder_shots" -> reorder_shots(script, args)
    [] OTHER -> update_script_settings(script, args)

\* applyToolCall(script, toolName, args); id is the value generateId()
\* returns if the call reaches makeShot
applyToolCall(script, toolName, args, id) ==
  CASE toolName = "update_shot_prompt" -> update_shot_prompt(script, args)
    [] toolName = "update_shot_narration" -> update_shot_narration(script, args)
    [] toolName = "update_shot_subtitles" -> update_shot_subtitles(script, args)
    [] toolName = "add_shot" -> add_shot(script, args, id)
    [] toolName = "delete_shot" -> delete_shot(script, args)
    [] toolName = "reorder_shots" -> reorder_shots(script, args)
    [] toolName = "update_script_settings" -> update_script_settings(script, args)
    [] OTHER -> script

(***************************************************************************)
(* Lyrics: messages and the storage service.  A Message is a record with   *)
(* id, role, content, parentId (Null for a root), createdAt, deleted and,  *)
(* on an assistant message whose content parsed, the lyrics fields.        *)
(***************************************************************************)
LyricsFields == {"title", "style", "commentary", "lyricsBody"}

\* { ...a, ...b }
Merge(a, b) ==
  [k \in DOMAIN a \cup DOMAIN b |-> IF k \in DOMAIN b THEN b[k] ELSE a[k]]

\* settings: null
NullSettings == [null |-> TRUE]

\* StorageExport fixtures
emptyFixture == [settings |-> NullSettings, messages |-> <<>>, songs |-> <<>>]

baseFixture ==
  [ settings |-> [poeApiKey |-> "test-poe-api-key", numSongs |-> 3],
    messages |->
      << [ id |-> "fixture-msg-1u", role |-> "user",
           content |-> "Write a short pop song about coffee",
           parentId |-> Null, createdAt |-> "2026-01-01T08:00:00.000Z",
           deleted |-> FALSE ],
         [ id |-> "fixture-msg-1a", role |-> "assistant",
           content |-> "---\ntitle: Coffee Dreams\nstyle: upbeat pop\ncommentary: A cheerful song.\n---\nCoffee gets me up",
           parentId |-> "fixture-msg-1u", title |-> "Coffee Dreams",
           style |-> "upbeat pop", commentary |-> "A cheerful song.",
           lyricsBody |-> "Coffee gets me up",
           createdAt |-> "2026-01-01T08:05:00.000Z", deleted |-> FALSE ] >>,
    songs |->
      << [ id |-> "fixture-song-1", messageId |-> "fixture-msg-1a",
           title |-> "Coffee Dreams (Take 1)",
           audioUrl |-> "https://example.com/fixture-audio-1.mp3",
           pinned |-> FALSE, deleted |-> FALSE,
           createdAt |-> "2026-01-01T08:10:00.000Z" ] >> ]

\* three conversations, the third one soft-deleted; a song and a
\* soft-deleted song
multiEntryFixture ==
  [ settings |-> [poeApiKey |-> "test-poe-api-key", numSongs |-> 3],
    messages |->
      << [ id |-> "fixture-multi-entry-1u", role |-> "user",
           content |-> "Write a pop song for the morning",
           parentId |-> Null, createdAt |-> "2026-01-04T07:00:00.000Z",
           deleted |-> FALSE ],
         [ id |-> "fixture-multi-entry-1a", role |-> "assistant",
           content |-> "Rise and shine, the day is mine",
           parentId |-> "fixture-multi-entry-1u", title |-> "Morning Pop",
           style |-> "pop", commentary |-> "A pop song for the morning.",
           lyricsBody |-> "Rise and shine, the day is mine",
           createdAt |-> "2026-01-04T07:01:00.000Z", deleted |-> FALSE ],
         [ id |-> "fixture-multi-entry-2u", role |-> "user",
           content |-> "Write a jazz tune for late nights",
           parentId |-> Null, createdAt |-> "2026-01-04T23:00:00.000Z",
           deleted |-> FALSE ],
         [ id |-> "fixture-multi-entry-2a", role |-> "assistant",
           content |-> "Smooth notes drift through the dark",
           parentId |-> "fixture-multi-entry-2u", title |-> "Midnight Jazz",
           style |-> "jazz", commentary |-> "A jazz tune for late nights.",
           lyricsBody |-> "Smooth notes drift through the dark",
           createdAt |-> "2026-01-04T23:01:00.000Z", deleted |-> FALSE ],
         [ id |-> "fixture-multi-entry-3u", role |-> "user",
           content |-> "Write a blues song",
           parentId |-> Null, createdAt |-> "2026-01-04T12:00:00.000Z",
           deleted |-> FALSE ],
         [ id |-> "fixture-multi-entry-3a", role |-> "assistant",
           content |-> "Gone but not forgotten",
           parentId |-> "fixture-multi-entry-3u", title |-> "Deleted Entry",
           style |-> "blues", commentary |-> "This entry was soft-deleted.",
           lyricsBody |-> "Gone but not forgotten",
           createdAt |-> "2026-01-04T12:01:00.000Z", deleted |-> TRUE ] >>,
    songs |->
      << [ id |-> "fixture-multi-entry-song-1",
           messageId |-> "fixture-multi-entry-1a",
           title |-> "Morning Pop (Take 1)",
           audioUrl |-> "https://example.com/morning-pop-1.mp3",
           pinned |-> FALSE, deleted |-> FALSE,
           createdAt |-> "2026-01-04T07:10:00.000Z" ],
         [ id |-> "fixture-multi-entry-song-3",
           messageId |-> "fixture-multi-entry-1a",
           title |-> "Morning Pop (Take 3)",
           audioUrl |-> "https://example.com/morning-pop-3.mp3",
           pinned |-> FALSE, deleted |-> TRUE,
           createdAt |-> "2026-01-04T07:12:00.000Z" ] >> ]

\* the id and the timestamp the storage service gives the n-th message it
\* creates
NewId(n) == "m" \o ToString(n)
Now(n) == "t" \o ToString(n)

MessageIds(st) == {st.messages[i].id : i \in 1..Len(st.messages)}

\* the message createMessage(data) persists and returns
NewMessage(data, n) ==
  Merge(data, [id |-> NewId(n), createdAt |-> Now(n), deleted |-> FALSE])

\* the storage after createMessage(data)
createMessage(st, data, n) ==
  [st EXCEPT !.messages = Append(@, NewMessage(data, n))]

getMessages(st) == st.messages

\* getMessage(id): <<the message>>, or <<>> for null
getMessage(st, id) ==
  LET HasId(m) == m.id = id
      found == SelectSeq(st.messages, HasId)
  IN IF found = <<>> THEN <<>> ELSE <<found[1]>>

\* getAncestors that returns the chain from the message up to the root
RECURSIVE AncestorsUp_leafFirst(_, _, _)
AncestorsUp_leafFirst(st, id, fuel) ==
  LET msg == getMessage(st, id)
  IN IF msg = <<>> \/ fuel = 0
     THEN <<>>
     ELSE IF msg[1].parentId = Null
          THEN msg
          ELSE msg \o AncestorsUp_leafFirst(st, msg[1].parentId, fuel - 1)

\* the chain of the message with the given id, root first; fuel bounds the
\* walk by the number of messages
RECURSIVE AncestorsUp(_, _, _)
AncestorsUp(st, id, fuel) ==
  LET msg == getMessage(st, id)
  IN IF msg = <<>> \/ fuel = 0
     THEN <<>>
     ELSE IF msg[1].parentId = Null
          THEN msg
          ELSE AncestorsUp(st, msg[1].parentId, fuel - 1) \o msg

getAncestors_leafFirst(st, id) ==
  AncestorsUp_leafFirst(st, id, Len(st.messages))

getAncestors(st, id) == AncestorsUp(st, id, Len(st.messages))

\* updateMessage(id, patch)
updateMessage(st, id, patch) ==
  [st EXCEPT !.messages =
     [i \in 1..Len(st.messages) |->
        IF st.messages[i].id = id
        THEN Merge(st.messages[i], patch)
        ELSE st.messages[i]]]

\* export(): the snapshot of the collections
export(st) ==
  [settings |-> st.settings, messages |-> st.messages, songs |-> st.songs]

\* import that adds the rows of the snapshot to the rows that are there
import_merge(st, data) ==
  [ settings |-> data.settings,
    messages |-> st.messages \o data.messages,
    songs |-> st.songs \o data.songs ]

\* import(data): the collections are replaced by those of the snapshot
import(st, data) ==
  [settings |-> data.settings, messages |-> data.messages,
   songs |-> data.songs]

\* guardAction(): false (and the API key modal opens) when no key is set
guardAction(st) ==
  /\ st.settings # NullSettings
  /\ st.settings.poeApiKey # ""

(***************************************************************************)
(* Text.  A response text is the sequence of its lines; a line is "---",   *)
(* a line `name: value`, or any other line.                                *)
(***************************************************************************)
Delim == [kind |-> "delim", name |-> "", value |-> "---"]
Field(name, value) == [kind |-> "field", name |-> name, value |-> value]
Line(text) == [kind |-> "text", name |-> "", value |-> text]

\* the characters of a line
Render(l) == IF l.kind = "field" THEN l.name \o ": " \o l.value ELSE l.value

\* lines.join("\n")
RECURSIVE Join(_)
Join(lines) ==
  IF lines = <<>> THEN ""
  ELSE IF Len(lines) = 1 THEN Render(lines[1])
  ELSE Render(lines[1]) \o "\n" \o Join(Tail(lines))

\* text.match(/^---\n([\s\S]*?)\n---\n?([\s\S]*)$/): the index of the line
\* that closes the header block, 0 if the text does not match.  The text
\* begins with a "---" line, and the block is closed by the first "---"
\* line that has at least one line between it and the opening one.
MatchFrontmatter(text) ==
  IF /\ Len(text) >= 3
     /\ text[1].kind = "delim"
     /\ \E j \in 3..Len(text) : text[j].kind = "delim"
  THEN CHOOSE j \in 3..Len(text) :
         /\ text[j].kind = "delim"
         /\ \A i \in 3..(j - 1) : text[i].kind # "delim"
  ELSE 0

\* extractField(name): the value of the first line `name: value` of the
\* header block that has a value, "" if there is none
extractField(frontmatter, name) ==
  LET IsField(l) == l.kind = "field" /\ l.name = name /\ l.value # ""
      found == SelectSeq(frontmatter, IsField)
  IN IF found = <<>> THEN "" ELSE found[1].value

\* parseLyricsResponse that returns empty fields for a text without header
parseLyricsResponse_emptyFields(text) ==
  LET close == MatchFrontmatter(text)
      frontmatter == IF close = 0 THEN <<>> ELSE SubSeq(text, 2, close - 1)
  IN << [ title |-> extractField(frontmatter, "title"),
          style |-> extractField(frontmatter, "style"),
          commentary |-> extractField(frontmatter, "commentary"),
          lyricsBody |->
            IF close = 0 THEN ""
            ELSE Join(SubSeq(text, close + 1, Len(text))) ] >>

\* parseLyricsResponse(text): <<the parsed fields>>, or <<>> for null
parseLyricsResponse(text) ==
  LET close == MatchFrontmatter(text)
  IN IF close = 0
     THEN <<>>
     ELSE LET frontmatter == SubSeq(text, 2, close - 1)
          IN << [ title |-> extractField(frontmatter, "title"),
                  style |-> extractField(frontmatter, "style"),
                  commentary |-> extractField(frontmatter, "commentary"),
                  lyricsBody |-> Join(SubSeq(text, close + 1, Len(text))) ] >>

\* ...(parsed ?? {})
SpreadParsed(parsed) ==
  IF parsed = <<>> THEN [k \in {} |-> ""] ELSE parsed[1]

\* userInput.trim() on the inputs the model draws
Trim(s) ==
  CASE s = "   " -> ""
    [] s = "  Write a song " -> "Write a song"
    [] OTHER -> s

(***************************************************************************)
(* State: the script the caller holds (the persisted one), the script the  *)
(* last applyToolCall returned, and the call that produced it (tool name,  *)
(* argument map, the id generateId() produced).  pc is the caller's        *)
(* position: "idle" before a call, "applied" between applyToolCall's       *)
(* return and the caller's persisting of the result.                       *)
(***************************************************************************)
VARIABLES script, result, lastTool, lastArgs, lastId, pc, calls

(***************************************************************************)
(* State of the caller while it works through one response of the model:   *)
(* the toolCalls of the response, the ids generateId() produced for the    *)
(* calls applied so far (one per applied call), and the script the caller  *)
(* held when the response arrived.                                         *)
(***************************************************************************)
VARIABLES response, usedIds, base

chatVars == <<response, usedIds, base>>

(***************************************************************************)
(* State of the lyrics pages.  storage is what the storage service holds   *)
(* (settings, messages, songs).  routeId is the :messageId of the          *)
(* LyricsGenerator route (Null on /lyrics/new), loading the user message   *)
(* whose reply the mounted page is waiting for (isLoading), orphans the    *)
(* user messages whose reply a page that was left is still waiting for,    *)
(* nextId the number of the next message created.  lastResponse is the     *)
(* response text handled last and lastReply the assistant message created  *)
(* from it.                                                                *)
(***************************************************************************)
VARIABLES storage, routeId, loading, orphans, nextId, lastResponse, lastReply

lyricsVars ==
  <<storage, routeId, loading, orphans, nextId, lastResponse, lastReply>>

(***************************************************************************)
(* State of the backup and of the lyrics list: the snapshot at hand (the   *)
(* one export() returned last, or a backup file the user chose), whether   *)
(* the last change of the storage was an import of it, the entry whose     *)
(* deletion waits for confirmation, and the messages soft-deleted through  *)
(* the list that the storage, as imported since, still holds as deleted.   *)
(* allEntries is the list the lyrics list page shows, read from the        *)
(* storage when the page is mounted and after a confirmed deletion; answer *)
(* is the button that closed a confirmation dialog last ("none" while a    *)
(* dialog is open and before the first one).                               *)
(***************************************************************************)
VARIABLES snapshot, restored, pendingDeleteId, trashed, allEntries, answer

storeVars ==
  <<snapshot, restored, pendingDeleteId, trashed, allEntries, answer>>

toolVars == <<script, result, lastTool, lastArgs, lastId, pc, calls>>

(***************************************************************************)
(* State of the duration picker of a shot: the duration the shot has, the  *)
(* durations of the video model chosen (VideoModelDef.durations), and the  *)
(* duration closestDuration returned for them: <<d>>, and <<>> before the   *)
(* call.                                                                   *)
(***************************************************************************)
VARIABLES shotDuration, modelDurations, snapped

durationVars == <<shotDuration, modelDurations, snapped>>

(***************************************************************************)
(* State of the list pages with a delete button.  page is the page that is *)
(* mounted.  scriptRows is what videoStorageService holds and scriptsShown *)
(* the scripts state of VideoScripts; confirmDelete is the set of script   *)
(* cards whose confirmDelete flag is set.  sessionRows is what             *)
(* imageStorageService holds, sessionsShown the rows of AllSessions and    *)
(* pendingSession the session whose deletion waits for confirmation.       *)
(***************************************************************************)
VARIABLES page, scriptRows, scriptsShown, confirmDelete,
          sessionRows, sessionsShown, pendingSession

deleteVars ==
  <<page, scriptRows, scriptsShown, confirmDelete,
    sessionRows, sessionsShown, pendingSession>>

(***************************************************************************)
(* State of the SongGenerator page: the entryId of the query string, the   *)
(* slots, isGenerating and newSongs states, the promises of the Generate   *)
(* action under way or finished last (requests[i] is "pending",            *)
(* "fulfilled" or "rejected"), the position of handleGenerate ("idle", or  *)
(* "awaiting" at Promise.allSettled), the number of the next song created, *)
(* and the number of songs the storage held when Generate was clicked.     *)
(***************************************************************************)
VARIABLES entryId, slots, isGenerating, newSongs, requests, genPc,
          nextSong, songsBefore

songVars ==
  <<entryId, slots, isGenerating, newSongs, requests, genPc,
    nextSong, songsBefore>>

(***************************************************************************)
(* State of the image session page: the generations and items of the       *)
(* session as the storage holds them, whether the fullscreen viewer is     *)
(* mounted, its initialItem prop (the id of the image clicked), its        *)
(* listMode and currentIndex states, and the input handled last ("open",   *)
(* "close", "mode", "prev", "next"; "none" before the first).              *)
(***************************************************************************)
VARIABLES imageGenerations, imageItems, viewerOpen, initialItem, listMode,
          currentIndex, lastKey

viewerVars ==
  <<imageGenerations, imageItems, viewerOpen, initialItem, listMode,
    currentIndex, lastKey>>

mediaVars == <<durationVars, deleteVars, songVars, viewerVars>>

\* the state of the video chat, of the lyrics pages and of the backup
appVars == <<toolVars, chatVars, lyricsVars, storeVars>>

vars == <<appVars, mediaVars>>

\* shots a stored script starts with
Shot1 ==
  [ id |-> "s1", title |-> "Intro", prompt |-> "p0",
    narration |-> [enabled |-> FALSE, text |-> "", audioSource |-> "video"],
    video |-> [selectedUrl |-> "u1", history |-> <<"u1">>],
    subtitles |-> FALSE, duration |-> 5 ]

Shot2 ==
  [ id |-> "s2", title |-> "Middle", prompt |-> "p0",
    narration |-> [enabled |-> TRUE, text |-> "old", audioSource |-> "elevenlabs"],
    video |-> [selectedUrl |-> Null, history |-> <<>>],
    subtitles |-> TRUE, duration |-> DEFAULT_VIDEO_DURATION ]

InitShots == { <<>>, <<Shot1, Shot2>> }

InitSettings ==
  { [narrationEnabled |-> FALSE, subtitles |-> TRUE, globalPrompt |-> "",
     defaultAudio |-> "elevenlabs"],
    [narrationEnabled |-> TRUE, subtitles |-> FALSE, globalPrompt |-> "g0",
     defaultAudio |-> "video"] }

InitScripts ==
  { [ id |-> "script-1", title |-> "My script", shots |-> sh, settings |-> st,
      createdAt |-> 1000, updatedAt |-> 1000 ] :
    sh \in InitShots, st \in InitSettings }

\* the image session is empty and no viewer is mounted
ViewerIdle ==
  /\ imageGenerations = <<>>
  /\ imageItems = <<>>
  /\ viewerOpen = FALSE
  /\ initialItem = Null
  /\ listMode = "current"
  /\ currentIndex = 0
  /\ lastKey = "none"

\* no duration is being chosen, no list page is open
MediaIdle ==
  /\ shotDuration = DEFAULT_VIDEO_DURATION
  /\ modelDurations = <<>>
  /\ snapped = <<>>
  /\ page = "home"
  /\ scriptRows = <<>>
  /\ scriptsShown = <<>>
  /\ confirmDelete = {}
  /\ sessionRows = <<>>
  /\ sessionsShown = <<>>
  /\ pendingSession = Null
  /\ entryId = Null
  /\ slots = <<>>
  /\ isGenerating = FALSE
  /\ newSongs = <<>>
  /\ requests = <<>>
  /\ genPc = "idle"
  /\ nextSong = 1
  /\ songsBefore = 0
  /\ ViewerIdle

\* no lyrics page is open and the storage is empty
LyricsIdle ==
  /\ storage = emptyFixture
  /\ routeId = Null
  /\ loading = Null
  /\ orphans = {}
  /\ nextId = 1
  /\ lastResponse = <<>>
  /\ lastReply = Null
  /\ snapshot = emptyFixture
  /\ restored = FALSE
  /\ pendingDeleteId = Null
  /\ trashed = {}
  /\ allEntries = <<>>
  /\ answer = "none"

Init ==
  /\ script \in InitScripts
  /\ result = script
  /\ lastTool = "<none>"
  /\ lastArgs = NoArgs
  /\ lastId = ""
  /\ pc = "idle"
  /\ calls = 0
  /\ response = <<>>
  /\ usedIds = <<>>
  /\ base = script
  /\ LyricsIdle
  /\ MediaIdle

(***************************************************************************)
(* Inputs: the values a model-emitted argument may carry.                  *)
(***************************************************************************)
\* Date.now() readings and Math.random() suffixes
Clock == {1000}
FirstEntropy == "k3f9x2a"
Entropy == {FirstEntropy, "q7m1z8b"}

IdsOf(sc) == {sc.shots[i].id : i \in 1..Len(sc.shots)}

\* a shot id argument: missing, mistyped, an id of the script, an unknown id
IdArgs(sc) == {Undefined, Num} \cup {Str(x) : x \in IdsOf(sc) \cup {"nope"}}
PromptArgs == {Undefined, Num, Str("p1")}
TitleArgs == {Undefined, Num, Str("Outro")}
BoolArgs == {Undefined, Bool(TRUE), Bool(FALSE), Str("yes")}
\* the optional arguments <<enabled, text, audioSource>> of
\* update_shot_narration: none, each alone, several, mistyped ones; a call
\* that matches no shot tries fewer of them
NarrationOpts ==
  { <<Undefined, Undefined, Undefined>>,
    <<Bool(TRUE), Undefined, Undefined>>,
    <<Bool(FALSE), Undefined, Undefined>>,
    <<Undefined, Str("hi"), Undefined>>,
    <<Undefined, Undefined, Str("video")>>,
    <<Undefined, Undefined, Str("elevenlabs")>>,
    <<Bool(TRUE), Str("hi"), Str("video")>>,
    <<Bool(FALSE), Str("hi"), Undefined>>,
    <<Str("yes"), Undefined, Undefined>>,
    <<Undefined, Num, Undefined>>,
    <<Undefined, Undefined, Str("bogus")>>,
    <<Str("yes"), Str("hi"), Str("bogus")>>,
    <<Bool(TRUE), Num, Str("elevenlabs")>> }
NarrationOptsUnmatched ==
  { <<Undefined, Undefined, Undefined>>,
    <<Bool(TRUE), Str("hi"), Str("video")>> }

\* the arguments <<narrationEnabled, subtitles, globalPrompt>> of
\* update_script_settings: none, each alone, several, mistyped ones
SettingsOpts ==
  { <<Undefined, Undefined, Undefined>>,
    <<Bool(TRUE), Undefined, Undefined>>,
    <<Bool(FALSE), Undefined, Undefined>>,
    <<Undefined, Bool(TRUE), Undefined>>,
    <<Undefined, Bool(FALSE), Undefined>>,
    <<Undefined, Undefined, Str("g1")>>,
    <<Bool(TRUE), Bool(FALSE), Str("g1")>>,
    <<Str("yes"), Undefined, Undefined>>,
    <<Undefined, Num, Undefined>>,
    <<Undefined, Undefined, Num>>,
    <<Bool(TRUE), Str("yes"), Num>> }

\* elements of a shotIds array
IdElems(sc) == {Num} \cup {Str(x) : x \in IdsOf(sc) \cup {"nope"}}
SeqsUpTo(S, n) == UNION {[1..k -> S] : k \in 0..n}
ShotIdsArgs(sc) ==
  {Undefined, Str("s1")} \cup {Arr(l) : l \in SeqsUpTo(IdElems(sc), MaxList)}

UnknownNames == {"nonexistent_tool", "Delete_Shot"}
UnknownArgs(sc) ==
  { NoArgs,
    MkArgs([shotId |-> Str("s1"), prompt |-> Str("p1")]),
    MkArgs([narrationEnabled |-> Bool(TRUE), globalPrompt |-> Str("g1")]),
    MkArgs([shotIds |-> Arr(<<Str("s2"), Str("s1")>>)]) }

(***************************************************************************)
(* Actions: the caller applies one tool call of the model's response to    *)
(* the current script, then persists the returned script, which the next   *)
(* call is applied to.                                                     *)
(***************************************************************************)
Call(toolName, args, id) ==
  /\ pc = "idle"
  /\ calls < MaxCalls
  /\ result' = applyToolCall(script, toolName, args, id)
  /\ lastTool' = toolName
  /\ lastArgs' = args
  /\ lastId' = id
  /\ pc' = "applied"
  /\ calls' = calls + 1
  /\ UNCHANGED <<script, chatVars, lyricsVars, storeVars, mediaVars>>

UpdateShotPrompt ==
  \E sid \in IdArgs(script), p \in PromptArgs :
    /\ TypeOf(sid) = "string" \/ p = Str("p1")
    /\ Call("update_shot_prompt",
            MkArgs([shotId |-> sid, prompt |-> p]), "")

UpdateShotNarration ==
  \E sid \in IdArgs(script) :
    \E o \in (IF sid \in {Str(x) : x \in IdsOf(script)}
              THEN NarrationOpts ELSE NarrationOptsUnmatched) :
      Call("update_shot_narration",
           MkArgs([shotId |-> sid, enabled |-> o[1], text |-> o[2],
                   audioSource |-> o[3]]), "")

UpdateShotSubtitles ==
  \E sid \in IdArgs(script), b \in BoolArgs :
    /\ TypeOf(sid) = "string" \/ b = Bool(TRUE)
    /\ Call("update_shot_subtitles",
            MkArgs([shotId |-> sid, subtitles |-> b]), "")

AddShot ==
  /\ Len(script.shots) < MaxShots
  /\ \E t \in TitleArgs, p \in PromptArgs, after \in IdArgs(script),
        now \in Clock, rnd \in Entropy :
       \* a rejected call never reaches generateId(): one reading suffices
       /\ (TypeOf(t) = "string" /\ TypeOf(p) = "string")
            \/ (rnd = FirstEntropy /\ after \in {Undefined, Str("s1")})
       /\ Call("add_shot",
               MkArgs([title |-> t, prompt |-> p, afterShotId |-> after]),
               generateId(now, rnd))

DeleteShot ==
  \E sid \in IdArgs(script) :
    Call("delete_shot", MkArgs([shotId |-> sid]), "")

ReorderShots ==
  \E l \in ShotIdsArgs(script) :
    Call("reorder_shots", MkArgs([shotIds |-> l]), "")

UpdateScriptSettings ==
  \E o \in SettingsOpts :
    Call("update_script_settings",
         MkArgs([narrationEnabled |-> o[1], subtitles |-> o[2],
                 globalPrompt |-> o[3]]), "")

UnknownTool ==
  \E name \in UnknownNames, args \in UnknownArgs(script) :
    Call(name, args, "")

\* the caller persists the returned script; the tool call is consumed
Persist ==
  /\ pc = "applied"
  /\ script' = result
  /\ lastTool' = "<none>"
  /\ lastArgs' = NoArgs
  /\ lastId' = ""
  /\ pc' = "idle"
  /\ UNCHANGED <<result, calls, chatVars, lyricsVars, storeVars, mediaVars>>

Next ==
  \/ UpdateShotPrompt
  \/ UpdateShotNarration
  \/ UpdateShotSubtitles
  \/ AddShot
  \/ DeleteShot
  \/ ReorderShots
  \/ UpdateScriptSettings
  \/ UnknownTool
  \/ Persist

Spec == Init /\ [][Next]_vars

(***************************************************************************)
(* A response with several tool calls.  The caller takes the toolCalls of  *)
(* one response in the order of the array, applies each to the script it   *)
(* holds and persists the returned script before it takes the next; a new  *)
(* response is taken up when the previous one is worked through.           *)
(***************************************************************************)
\* the longest toolCalls array
MaxResponse == 2

ToolCall(name, args) == [name |-> name, args |-> args]

\* tool calls of the fixture responses, and calls whose order matters
ResponseCalls ==
  { ToolCall("add_shot", MkArgs([title |-> Str("Closing Shot"),
                                 prompt |-> Str("p1")])),
    ToolCall("update_script_settings",
             MkArgs([narrationEnabled |-> Bool(TRUE),
                     globalPrompt |-> Str("g1")])),
    ToolCall("update_shot_prompt", MkArgs([shotId |-> Str("s1"),
                                           prompt |-> Str("p1")])),
    ToolCall("nonexistent_tool", MkArgs([someArg |-> Str("someValue")])),
    ToolCall("delete_shot", MkArgs([shotId |-> Str("s1")])),
    ToolCall("add_shot", MkArgs([title |-> Str("Outro"), prompt |-> Str("p2"),
                                 afterShotId |-> Str("s1")])) }

Responses == {r \in SeqsUpTo(ResponseCalls, MaxResponse) : r # <<>>}

\* a response arrives; the previous one has been worked through
Receive ==
  /\ pc = "idle"
  /\ Len(usedIds) = Len(response)
  /\ calls < MaxCalls
  /\ \E r \in Responses : response' = r
  /\ usedIds' = <<>>
  /\ base' = script
  /\ UNCHANGED <<script, result, lastTool, lastArgs, lastId, pc, calls>>
  /\ UNCHANGED <<lyricsVars, storeVars, mediaVars>>

\* ApplyNext that applies every call to the script the response found
ApplyNext_onBase ==
  /\ pc = "idle"
  /\ Len(usedIds) < Len(response)
  /\ LET call == response[Len(usedIds) + 1]
     IN \E id \in (IF call.name = "add_shot"
                   THEN {generateId(now, rnd) : now \in Clock, rnd \in Entropy}
                   ELSE {""}) :
          /\ script' = applyToolCall(base, call.name, call.args, id)
          /\ usedIds' = Append(usedIds, id)
  /\ calls' = calls + 1
  /\ UNCHANGED <<result, lastTool, lastArgs, lastId, pc, response, base>>
  /\ UNCHANGED <<lyricsVars, storeVars, mediaVars>>

\* the caller applies the next tool call of the response to the script it
\* holds and persists the returned script
ApplyNext ==
  /\ pc = "idle"
  /\ Len(usedIds) < Len(response)
  /\ LET call == response[Len(usedIds) + 1]
     IN \E id \in (IF call.name = "add_shot"
                   THEN {generateId(now, rnd) : now \in Clock, rnd \in Entropy}
                   ELSE {""}) :
          /\ script' = applyToolCall(script, call.name, call.args, id)
          /\ usedIds' = Append(usedIds, id)
  /\ calls' = calls + 1
  /\ UNCHANGED <<result, lastTool, lastArgs, lastId, pc, response, base>>
  /\ UNCHANGED <<lyricsVars, storeVars, mediaVars>>

NextResponse ==
  \/ Receive
  \/ ApplyNext

SpecResponse == Init /\ [][NextResponse]_vars

(***************************************************************************)
(* The lyrics flow: the Home page creates the root message of a new        *)
(* conversation, the LyricsGenerator page creates a user message, waits    *)
(* for the model and creates the assistant message from the response.      *)
(***************************************************************************)
\* messages created in one behaviour
MaxCreated == 4

\* what the user types
Prompts == {"", "   ", "Write a song", "  Write a song "}

\* what client.chat() returns
ValidResponse ==
  << Delim, Field("title", "City Pulse"), Field("style", "synthwave"),
     Field("commentary", "Neon and rain."), Delim, Line("Rain on neon") >>
ResponseTexts ==
  { ValidResponse,
    << Delim, Field("style", "pop"), Delim >>,
    << Line("Sorry, I cannot help with that.") >>,
    << Delim, Field("title", "Unclosed"), Line("la la") >>,
    << Line("Here you go:"), Delim, Field("title", "Late"), Delim,
       Line("la la") >>,
    << Delim, Delim, Line("la la") >> }

\* the tool, chat and backup state the lyrics flow leaves alone
IdleScript ==
  CHOOSE sc \in InitScripts : sc.shots = <<>> /\ ~sc.settings.narrationEnabled

InitTree ==
  /\ script = IdleScript
  /\ result = script
  /\ lastTool = "<none>"
  /\ lastArgs = NoArgs
  /\ lastId = ""
  /\ pc = "idle"
  /\ calls = 0
  /\ response = <<>>
  /\ usedIds = <<>>
  /\ base = script
  /\ storage \in {emptyFixture, baseFixture}
  /\ routeId = Null
  /\ loading = Null
  /\ orphans = {}
  /\ nextId = 1
  /\ lastResponse = <<>>
  /\ lastReply = Null
  /\ snapshot = emptyFixture
  /\ restored = FALSE
  /\ pendingDeleteId = Null
  /\ trashed = {}
  /\ allEntries = <<>>
  /\ answer = "none"
  /\ MediaIdle

\* Home.handleSubmit: a new root prompt.  A LyricsGenerator page that is
\* waiting for a reply is left; its request stays in flight.  So is an
\* open confirmation dialog of the list, and the storage is no longer the
\* imported one.
HomeSubmit ==
  \E prompt \in Prompts :
    LET trimmed == Trim(prompt)
    IN /\ trimmed # ""
       /\ nextId <= MaxCreated
       /\ storage' = createMessage(storage,
                       [role |-> "user", content |-> trimmed,
                        parentId |-> Null], nextId)
       /\ routeId' = NewId(nextId)
       /\ nextId' = nextId + 1
       /\ orphans' = IF loading = Null THEN orphans ELSE orphans \cup {loading}
       /\ loading' = Null
       /\ restored' = FALSE
       /\ pendingDeleteId' = Null
       /\ UNCHANGED <<lastResponse, lastReply, snapshot, trashed, allEntries, answer>>
       /\ UNCHANGED <<toolVars, chatVars, mediaVars>>

\* the route changes to /lyrics/:id (a checkpoint, a list entry, a typed
\* URL) or to /lyrics/new
Navigate ==
  \E target \in MessageIds(storage) \cup {Null, "no-such-id"} :
    /\ target # routeId
    /\ routeId' = target
    /\ UNCHANGED <<storage, loading, orphans, nextId, lastResponse, lastReply>>
    /\ UNCHANGED <<toolVars, chatVars, storeVars, mediaVars>>

\* LyricsGenerator.handleSubmit that takes the route id as parent without
\* looking at currentMessage
Submit_routeAsParent ==
  \E input \in Prompts :
    LET trimmed == Trim(input)
        parentId == routeId
    IN /\ trimmed # ""
       /\ loading = Null
       /\ guardAction(storage)
       /\ nextId < MaxCreated
       /\ storage' = createMessage(storage,
                       [role |-> "user", content |-> trimmed,
                        parentId |-> parentId], nextId)
       /\ loading' = NewId(nextId)
       /\ nextId' = nextId + 1
       /\ UNCHANGED <<routeId, orphans, lastResponse, lastReply>>
       /\ UNCHANGED <<toolVars, chatVars, storeVars, mediaVars>>

\* LyricsGenerator.handleSubmit up to the await: the user message is
\* created as child of the current message, or as a root
Submit ==
  \E input \in Prompts :
    LET trimmed == Trim(input)
        currentMessage == IF routeId # Null THEN getMessage(storage, routeId)
                          ELSE <<>>
        parentId == IF routeId # Null /\ currentMessage # <<>>
                    THEN routeId ELSE Null
    IN /\ trimmed # ""
       /\ loading = Null
       /\ guardAction(storage)
       /\ nextId < MaxCreated
       /\ storage' = createMessage(storage,
                       [role |-> "user", content |-> trimmed,
                        parentId |-> parentId], nextId)
       /\ loading' = NewId(nextId)
       /\ nextId' = nextId + 1
       /\ UNCHANGED <<routeId, orphans, lastResponse, lastReply>>
       /\ UNCHANGED <<toolVars, chatVars, storeVars, mediaVars>>

\* the assistant message created as a root instead of as child of the
\* user message
AssistantData_asRoot(responseText, userId) ==
  Merge([role |-> "assistant", content |-> Join(responseText),
         parentId |-> Null],
        SpreadParsed(parseLyricsResponse(responseText)))

\* the assistant message handleSubmit creates from the response
AssistantData(responseText, userId) ==
  Merge([role |-> "assistant", content |-> Join(responseText),
         parentId |-> userId],
        SpreadParsed(parseLyricsResponse(responseText)))

\* LyricsGenerator.handleSubmit after the await, on the mounted page
Respond ==
  \E responseText \in ResponseTexts :
    /\ loading # Null
    /\ nextId <= MaxCreated
    /\ storage' = createMessage(storage,
                    AssistantData(responseText, loading), nextId)
    /\ routeId' = NewId(nextId)
    /\ nextId' = nextId + 1
    /\ loading' = Null
    /\ lastResponse' = responseText
    /\ lastReply' = NewId(nextId)
    /\ UNCHANGED orphans
    /\ UNCHANGED <<toolVars, chatVars, storeVars, mediaVars>>

\* client.chat() rejects: the page shows the user message
Fail ==
  /\ loading # Null
  /\ routeId' = loading
  /\ loading' = Null
  /\ UNCHANGED <<storage, orphans, nextId, lastResponse, lastReply>>
  /\ UNCHANGED <<toolVars, chatVars, storeVars, mediaVars>>

\* the reply to a request of a page that was left: the message is created;
\* the navigate() of the unmounted page may or may not take effect
RespondOrphan ==
  \E userId \in orphans, responseText \in ResponseTexts, nav \in BOOLEAN :
    /\ nextId <= MaxCreated
    /\ storage' = createMessage(storage,
                    AssistantData(responseText, userId), nextId)
    /\ routeId' = IF nav THEN NewId(nextId) ELSE routeId
    /\ nextId' = nextId + 1
    /\ orphans' = orphans \ {userId}
    /\ lastResponse' = responseText
    /\ lastReply' = NewId(nextId)
    /\ UNCHANGED loading
    /\ UNCHANGED <<toolVars, chatVars, storeVars, mediaVars>>

NextTree ==
  \/ HomeSubmit
  \/ Navigate
  \/ Submit
  \/ Respond
  \/ Fail
  \/ RespondOrphan

SpecTree == InitTree /\ [][NextTree]_vars

(***************************************************************************)
(* Backup and lyrics list: soft delete through the list's confirmation     *)
(* dialog, export of a snapshot, import of the snapshot at hand.           *)
(***************************************************************************)
\* the entries the list shows: non-deleted assistant messages
ListEntries(st) ==
  LET Shown(m) == m.role = "assistant" /\ ~m.deleted
  IN SelectSeq(getMessages(st), Shown)

Fixtures == {emptyFixture, baseFixture, multiEntryFixture}

InitStorage ==
  /\ script = IdleScript
  /\ result = script
  /\ lastTool = "<none>"
  /\ lastArgs = NoArgs
  /\ lastId = ""
  /\ pc = "idle"
  /\ calls = 0
  /\ response = <<>>
  /\ usedIds = <<>>
  /\ base = script
  /\ storage \in Fixtures
  /\ routeId = Null
  /\ loading = Null
  /\ orphans = {}
  /\ nextId = 1
  /\ lastResponse = <<>>
  /\ lastReply = Null
  /\ snapshot = emptyFixture
  /\ restored = FALSE
  /\ pendingDeleteId = Null
  /\ trashed = {}
  /\ allEntries = ListEntries(storage)
  /\ answer = "none"
  /\ MediaIdle

\* handleDeleteRequest: the confirmation dialog opens
DeleteRequest ==
  \E i \in 1..Len(allEntries) :
    /\ pendingDeleteId = Null
    /\ pendingDeleteId' = allEntries[i].id
    /\ answer' = "none"
    /\ UNCHANGED <<snapshot, restored, trashed, allEntries>>
    /\ UNCHANGED <<toolVars, chatVars, lyricsVars, mediaVars>>

\* handleDeleteCancel that deletes the entry all the same
DeleteCancel_deletes ==
  /\ pendingDeleteId # Null
  /\ storage' = updateMessage(storage, pendingDeleteId, [deleted |-> TRUE])
  /\ pendingDeleteId' = Null
  /\ allEntries' = ListEntries(storage')
  /\ answer' = "cancel"
  /\ UNCHANGED <<snapshot, restored, trashed>>
  /\ UNCHANGED <<routeId, loading, orphans, nextId, lastResponse, lastReply>>
  /\ UNCHANGED <<toolVars, chatVars, mediaVars>>

\* handleDeleteCancel
DeleteCancel ==
  /\ pendingDeleteId # Null
  /\ pendingDeleteId' = Null
  /\ answer' = "cancel"
  /\ UNCHANGED <<snapshot, restored, trashed, allEntries>>
  /\ UNCHANGED <<toolVars, chatVars, lyricsVars, mediaVars>>

\* handleDeleteConfirm that removes the row
DeleteConfirm_removeRow ==
  /\ pendingDeleteId # Null
  /\ LET Other(m) == m.id # pendingDeleteId
     IN storage' = [storage EXCEPT !.messages = SelectSeq(@, Other)]
  /\ trashed' = trashed \cup {pendingDeleteId}
  /\ pendingDeleteId' = Null
  /\ allEntries' = ListEntries(storage')
  /\ answer' = "confirm"
  /\ restored' = FALSE
  /\ UNCHANGED snapshot
  /\ UNCHANGED <<routeId, loading, orphans, nextId, lastResponse, lastReply>>
  /\ UNCHANGED <<toolVars, chatVars, mediaVars>>

\* handleDeleteConfirm: updateMessage(pendingDeleteId, { deleted: true })
DeleteConfirm ==
  /\ pendingDeleteId # Null
  /\ storage' = updateMessage(storage, pendingDeleteId, [deleted |-> TRUE])
  /\ trashed' = trashed \cup {pendingDeleteId}
  /\ pendingDeleteId' = Null
  /\ allEntries' = ListEntries(storage')
  /\ answer' = "confirm"
  /\ restored' = FALSE
  /\ UNCHANGED snapshot
  /\ UNCHANGED <<routeId, loading, orphans, nextId, lastResponse, lastReply>>
  /\ UNCHANGED <<toolVars, chatVars, mediaVars>>

\* Settings: export
Export ==
  /\ snapshot # export(storage)
  /\ snapshot' = export(storage)
  /\ pendingDeleteId' = Null
  /\ UNCHANGED <<restored, trashed, allEntries, answer>>
  /\ UNCHANGED <<toolVars, chatVars, lyricsVars, mediaVars>>

\* Settings: the user chooses a backup file to import
ChooseFile ==
  \E data \in Fixtures :
    /\ snapshot # data
    /\ snapshot' = data
    /\ restored' = FALSE
    /\ pendingDeleteId' = Null
    /\ UNCHANGED <<trashed, allEntries, answer>>
    /\ UNCHANGED <<toolVars, chatVars, lyricsVars, mediaVars>>

\* the ids of the messages the snapshot holds as deleted
DeletedIn(data) ==
  {data.messages[i].id : i \in {j \in 1..Len(data.messages) :
                                  data.messages[j].deleted}}

\* Settings: import of the snapshot at hand; the list page, mounted again
\* afterwards, reads the imported messages
Import ==
  /\ ~restored
  /\ storage' = import(storage, snapshot)
  /\ restored' = TRUE
  /\ trashed' = trashed \cap DeletedIn(snapshot)
  /\ pendingDeleteId' = Null
  /\ allEntries' = ListEntries(storage')
  /\ UNCHANGED <<snapshot, answer>>
  /\ UNCHANGED <<routeId, loading, orphans, nextId, lastResponse, lastReply>>
  /\ UNCHANGED <<toolVars, chatVars, mediaVars>>

NextStorage ==
  \/ HomeSubmit
  \/ DeleteRequest
  \/ DeleteCancel
  \/ DeleteConfirm
  \/ Export
  \/ ChooseFile
  \/ Import

SpecStorage == InitStorage /\ [][NextStorage]_vars

(***************************************************************************)
(* Durations of video models.  A shot's duration is snapped to the nearest *)
(* duration the chosen video model supports.                               *)
(***************************************************************************)
\* the longest list of durations of a model, and the longest duration
MaxAvail == 3
MaxDuration == 6

\* Math.abs on integers
Abs(x) == IF x < 0 THEN -x ELSE x

\* the test of the loop without the preference for the longer duration
Replaces_noTie(diff, value, bestDiff, best) ==
  diff < bestDiff

\* the test of the loop: available[i] replaces best
Replaces(diff, value, bestDiff, best) ==
  diff < bestDiff \/ (diff = bestDiff /\ value > best)

\* the loop of closestDuration from index i on (1-based)
RECURSIVE closestDurationLoop(_, _, _, _, _)
closestDurationLoop(target, available, i, best, bestDiff) ==
  IF i > Len(available)
  THEN best
  ELSE LET diff == Abs(target - available[i])
       IN IF Replaces(diff, available[i], bestDiff, best)
          THEN closestDurationLoop(target, available, i + 1, available[i], diff)
          ELSE closestDurationLoop(target, available, i + 1, best, bestDiff)

closestDuration(target, available) ==
  IF Len(available) = 0
  THEN target
  ELSE closestDurationLoop(target, available, 2, available[1],
                           Abs(target - available[1]))

\* no script is edited, no lyrics page is open and the storage is empty
AppIdle ==
  /\ script = IdleScript
  /\ result = script
  /\ lastTool = "<none>"
  /\ lastArgs = NoArgs
  /\ lastId = ""
  /\ pc = "idle"
  /\ calls = 0
  /\ response = <<>>
  /\ usedIds = <<>>
  /\ base = script
  /\ LyricsIdle

\* a shot with some duration and a model with some list of durations, in
\* any order and with repetitions
InitDuration ==
  /\ AppIdle
  /\ shotDuration \in 0..(MaxDuration + 1)
  /\ modelDurations \in SeqsUpTo(1..MaxDuration, MaxAvail)
  /\ snapped = <<>>
  /\ page = "home"
  /\ scriptRows = <<>>
  /\ scriptsShown = <<>>
  /\ confirmDelete = {}
  /\ sessionRows = <<>>
  /\ sessionsShown = <<>>
  /\ pendingSession = Null
  /\ entryId = Null
  /\ slots = <<>>
  /\ isGenerating = FALSE
  /\ newSongs = <<>>
  /\ requests = <<>>
  /\ genPc = "idle"
  /\ nextSong = 1
  /\ songsBefore = 0
  /\ ViewerIdle

\* the shot's duration is snapped to the model's durations
Snap ==
  /\ snapped = <<>>
  /\ snapped' = <<closestDuration(shotDuration, modelDurations)>>
  /\ UNCHANGED <<shotDuration, modelDurations>>
  /\ UNCHANGED <<appVars, deleteVars, songVars, viewerVars>>

NextDuration == Snap

SpecDuration == InitDuration /\ [][NextDuration]_vars

(***************************************************************************)
(* Deleting from a list: the lyrics list, the video scripts grid and the   *)
(* image sessions list each open a confirmation dialog on the delete       *)
(* button and delete on Confirm.  The dialog is modal: while it is open    *)
(* the page takes no other click.                                          *)
(***************************************************************************)
Pages == {"lyrics", "scripts", "sessions"}

\* the scripts and the image sessions the storage is seeded with
ScriptRows ==
  << [id |-> "script-1", title |-> "My script"],
     [id |-> "script-2", title |-> "Second script"] >>
SessionRows ==
  << [id |-> "session-alpha", title |-> "Alpha session"],
     [id |-> "session-beta", title |-> "Beta session"],
     [id |-> "session-gamma", title |-> "Gamma session"] >>

\* the rows without the row of the given id
WithoutRow(rows, id) ==
  LET Other(r) == r.id # id
  IN SelectSeq(rows, Other)

listScripts(rows) == rows
deleteScript(rows, id) == WithoutRow(rows, id)
listSessions(rows) == rows
deleteSession(rows, id) == WithoutRow(rows, id)

NoDialog ==
  /\ pendingDeleteId = Null
  /\ confirmDelete = {}
  /\ pendingSession = Null

InitDelete ==
  /\ script = IdleScript
  /\ result = script
  /\ lastTool = "<none>"
  /\ lastArgs = NoArgs
  /\ lastId = ""
  /\ pc = "idle"
  /\ calls = 0
  /\ response = <<>>
  /\ usedIds = <<>>
  /\ base = script
  /\ storage \in Fixtures
  /\ routeId = Null
  /\ loading = Null
  /\ orphans = {}
  /\ nextId = 1
  /\ lastResponse = <<>>
  /\ lastReply = Null
  /\ snapshot = emptyFixture
  /\ restored = FALSE
  /\ pendingDeleteId = Null
  /\ trashed = {}
  /\ allEntries = ListEntries(storage)
  /\ answer = "none"
  /\ shotDuration = DEFAULT_VIDEO_DURATION
  /\ modelDurations = <<>>
  /\ snapped = <<>>
  /\ page = "lyrics"
  /\ scriptRows = ScriptRows
  /\ scriptsShown = <<>>
  /\ confirmDelete = {}
  /\ sessionRows = SessionRows
  /\ sessionsShown = <<>>
  /\ pendingSession = Null
  /\ entryId = Null
  /\ slots = <<>>
  /\ isGenerating = FALSE
  /\ newSongs = <<>>
  /\ requests = <<>>
  /\ genPc = "idle"
  /\ nextSong = 1
  /\ songsBefore = 0
  /\ ViewerIdle

\* the user goes to another list page: the page left is unmounted, with
\* its dialog, and the page entered reads its list from the storage
OpenPage ==
  \E p \in Pages :
    /\ p # page
    /\ page' = p
    /\ pendingDeleteId' = Null
    /\ confirmDelete' = {}
    /\ pendingSession' = Null
    /\ allEntries' = IF p = "lyrics" THEN ListEntries(storage) ELSE <<>>
    /\ scriptsShown' = IF p = "scripts" THEN listScripts(scriptRows) ELSE <<>>
    /\ sessionsShown' = IF p = "sessions" THEN listSessions(sessionRows)
                        ELSE <<>>
    /\ UNCHANGED <<scriptRows, sessionRows, snapshot, restored, trashed, answer>>
    /\ UNCHANGED <<toolVars, chatVars, lyricsVars, durationVars, songVars,
               viewerVars>>

\* the lyrics list
LyricsDeleteRequest == page = "lyrics" /\ DeleteRequest
LyricsDeleteCancel == page = "lyrics" /\ DeleteCancel
LyricsDeleteConfirm == page = "lyrics" /\ DeleteConfirm

\* ScriptCard.handleDelete: the card's dialog opens
ScriptDelete ==
  \E i \in 1..Len(scriptsShown) :
    /\ page = "scripts"
    /\ confirmDelete = {}
    /\ confirmDelete' = {scriptsShown[i].id}
    /\ answer' = "none"
    /\ UNCHANGED <<page, scriptRows, scriptsShown>>
    /\ UNCHANGED <<sessionRows, sessionsShown, pendingSession>>
    /\ UNCHANGED <<snapshot, restored, pendingDeleteId, trashed, allEntries>>
    /\ UNCHANGED <<toolVars, chatVars, lyricsVars, durationVars, songVars,
               viewerVars>>

\* ScriptCard.confirmDeleteAction: deleteScript, then onDeleted reloads the
\* scripts of the page
ScriptDeleteConfirm ==
  \E id \in confirmDelete :
    /\ page = "scripts"
    /\ scriptRows' = deleteScript(scriptRows, id)
    /\ confirmDelete' = confirmDelete \ {id}
    /\ scriptsShown' = listScripts(scriptRows')
    /\ answer' = "confirm"
    /\ UNCHANGED page
    /\ UNCHANGED <<sessionRows, sessionsShown, pendingSession>>
    /\ UNCHANGED <<snapshot, restored, pendingDeleteId, trashed, allEntries>>
    /\ UNCHANGED <<toolVars, chatVars, lyricsVars, durationVars, songVars,
               viewerVars>>

\* the onCancel of the card's dialog
ScriptDeleteCancel ==
  \E id \in confirmDelete :
    /\ page = "scripts"
    /\ confirmDelete' = confirmDelete \ {id}
    /\ answer' = "cancel"
    /\ UNCHANGED <<page, scriptRows, scriptsShown>>
    /\ UNCHANGED <<sessionRows, sessionsShown, pendingSession>>
    /\ UNCHANGED <<snapshot, restored, pendingDeleteId, trashed, allEntries>>
    /\ UNCHANGED <<toolVars, chatVars, lyricsVars, durationVars, songVars,
               viewerVars>>

\* AllSessions: the delete button of a row opens the dialog
SessionDelete ==
  \E i \in 1..Len(sessionsShown) :
    /\ page = "sessions"
    /\ pendingSession = Null
    /\ pendingSession' = sessionsShown[i].id
    /\ answer' = "none"
    /\ UNCHANGED <<page, scriptRows, scriptsShown, confirmDelete>>
    /\ UNCHANGED <<sessionRows, sessionsShown>>
    /\ UNCHANGED <<snapshot, restored, pendingDeleteId, trashed, allEntries>>
    /\ UNCHANGED <<toolVars, chatVars, lyricsVars, durationVars, songVars,
               viewerVars>>

\* AllSessions: Confirm deletes the session and the list shows the rest
SessionDeleteConfirm ==
  /\ page = "sessions"
  /\ pendingSession # Null
  /\ sessionRows' = deleteSession(sessionRows, pendingSession)
  /\ sessionsShown' = listSessions(sessionRows')
  /\ pendingSession' = Null
  /\ answer' = "confirm"
  /\ UNCHANGED <<page, scriptRows, scriptsShown, confirmDelete>>
  /\ UNCHANGED <<snapshot, restored, pendingDeleteId, trashed, allEntries>>
  /\ UNCHANGED <<toolVars, chatVars, lyricsVars, durationVars, songVars,
               viewerVars>>

\* AllSessions: Cancel closes the dialog
SessionDeleteCancel ==
  /\ page = "sessions"
  /\ pendingSession # Null
  /\ pendingSession' = Null
  /\ answer' = "cancel"
  /\ UNCHANGED <<page, scriptRows, scriptsShown, confirmDelete>>
  /\ UNCHANGED <<sessionRows, sessionsShown>>
  /\ UNCHANGED <<snapshot, restored, pendingDeleteId, trashed, allEntries>>
  /\ UNCHANGED <<toolVars, chatVars, lyricsVars, durationVars, songVars,
               viewerVars>>

NextDelete ==
  \/ OpenPage
  \/ LyricsDeleteRequest
  \/ LyricsDeleteCancel
  \/ LyricsDeleteConfirm
  \/ ScriptDelete
  \/ ScriptDeleteConfirm
  \/ ScriptDeleteCancel
  \/ SessionDelete
  \/ SessionDeleteConfirm
  \/ SessionDeleteCancel

SpecDelete == InitDelete /\ [][NextDelete]_vars

(***************************************************************************)
(* Song generation.  Generate Songs starts N requests at once, N being     *)
(* settings.numSongs; each request that resolves persists a song and fills *)
(* its slot, each that rejects marks its slot; handleGenerate goes on when *)
(* all have settled.                                                       *)
(***************************************************************************)
\* the largest numSongs of the settings, and the songs created in one
\* behaviour
MaxTakes == 3
MaxSongs == 4

\* the largest number of items of one image generation
MaxItems == 2

\* settings?.numSongs ?? 3
DefaultNumSongs == 3
numSongs(st) ==
  IF st.settings # NullSettings /\ "numSongs" \in DOMAIN st.settings
  THEN st.settings.numSongs
  ELSE DefaultNumSongs

\* the id the storage service gives the k-th song it creates
NewSongId(k) == "song-" \o ToString(k)

\* the song createSong(data) persists and returns
NewSong(data, k) ==
  Merge(data, [id |-> NewSongId(k), createdAt |-> Now(k),
               pinned |-> FALSE, deleted |-> FALSE])

createSong(st, data, k) ==
  [st EXCEPT !.songs = Append(@, NewSong(data, k))]

\* `${entry.title || "Song"} (Take ${songNumber})`
TakeTitle(entry, songNumber) ==
  (IF "title" \in DOMAIN entry /\ entry.title # "" THEN entry.title
   ELSE "Song") \o " (Take " \o ToString(songNumber) \o ")"

\* what client.generateSong resolves with, and the message of its error
AudioUrls == {"https://example.com/generated.mp3"}
ErrorMessages == {"Generation failed"}

\* settings with an API key and some numSongs, or without numSongs
SongSettings ==
  { [poeApiKey |-> "test-poe-api-key", numSongs |-> k] : k \in 0..MaxTakes }
    \cup { [poeApiKey |-> "test-poe-api-key"] }

InitSongs ==
  /\ script = IdleScript
  /\ result = script
  /\ lastTool = "<none>"
  /\ lastArgs = NoArgs
  /\ lastId = ""
  /\ pc = "idle"
  /\ calls = 0
  /\ response = <<>>
  /\ usedIds = <<>>
  /\ base = script
  /\ \E st \in SongSettings : storage = [baseFixture EXCEPT !.settings = st]
  /\ routeId = Null
  /\ loading = Null
  /\ orphans = {}
  /\ nextId = 1
  /\ lastResponse = <<>>
  /\ lastReply = Null
  /\ snapshot = emptyFixture
  /\ restored = FALSE
  /\ pendingDeleteId = Null
  /\ trashed = {}
  /\ allEntries = <<>>
  /\ answer = "none"
  /\ shotDuration = DEFAULT_VIDEO_DURATION
  /\ modelDurations = <<>>
  /\ snapped = <<>>
  /\ page = "home"
  /\ scriptRows = <<>>
  /\ scriptsShown = <<>>
  /\ confirmDelete = {}
  /\ sessionRows = <<>>
  /\ sessionsShown = <<>>
  /\ pendingSession = Null
  /\ entryId = "fixture-msg-1a"
  /\ slots = <<>>
  /\ isGenerating = FALSE
  /\ newSongs = <<>>
  /\ requests = <<>>
  /\ genPc = "idle"
  /\ nextSong = 1
  /\ songsBefore = Len(storage.songs)
  /\ ViewerIdle

\* slots.map(slot => slot.index === i ? { ...slot, ...patch } : slot);
\* slot.index is 0-based, i is the number of the request, from 1
SetSlot(prev, i, patch) ==
  [k \in 1..Len(prev) |->
     IF prev[k].index = i - 1 THEN Merge(prev[k], patch) ELSE prev[k]]

\* handleGenerate up to the await: N loading slots, N requests
Generate ==
  LET n == numSongs(storage)
      entry == IF entryId = Null THEN <<>> ELSE getMessage(storage, entryId)
  IN /\ guardAction(storage)
     /\ ~isGenerating
     /\ entryId # Null /\ entry # <<>>
     /\ nextSong + n - 1 <= MaxSongs
     /\ slots' = [k \in 1..n |->
                    [index |-> k - 1, loading |-> TRUE, song |-> <<>>,
                     error |-> Null]]
     /\ isGenerating' = TRUE
     /\ requests' = [k \in 1..n |-> "pending"]
     /\ genPc' = "awaiting"
     /\ songsBefore' = Len(storage.songs)
     /\ UNCHANGED <<entryId, newSongs, nextSong>>
     /\ UNCHANGED <<appVars, durationVars, deleteVars, viewerVars>>

\* the catch block that marks every slot
Reject_allSlots(i) ==
  \E message \in ErrorMessages :
    /\ requests[i] = "pending"
    /\ slots' = [k \in 1..Len(slots) |->
                   Merge(slots[k], [loading |-> FALSE, song |-> <<>>,
                                    error |-> message])]
    /\ requests' = [requests EXCEPT ![i] = "rejected"]
    /\ UNCHANGED <<entryId, isGenerating, newSongs, genPc, nextSong, songsBefore>>
    /\ UNCHANGED <<appVars, durationVars, deleteVars, viewerVars>>

\* the i-th request rejects: the catch block marks its slot
Reject(i) ==
  \E message \in ErrorMessages :
    /\ requests[i] = "pending"
    /\ slots' = SetSlot(slots, i, [loading |-> FALSE, song |-> <<>>,
                                   error |-> message])
    /\ requests' = [requests EXCEPT ![i] = "rejected"]
    /\ UNCHANGED <<entryId, isGenerating, newSongs, genPc, nextSong, songsBefore>>
    /\ UNCHANGED <<appVars, durationVars, deleteVars, viewerVars>>

\* the i-th request resolves: the song is persisted, put into its slot and
\* appended to newSongs
Resolve(i) ==
  \E audioUrl \in AudioUrls :
    LET entry == getMessage(storage, entryId)[1]
        data == [lyricsEntryId |-> entryId, title |-> TakeTitle(entry, i),
                 audioUrl |-> audioUrl]
        song == NewSong(data, nextSong)
    IN /\ requests[i] = "pending"
       /\ storage' = createSong(storage, data, nextSong)
       /\ nextSong' = nextSong + 1
       /\ slots' = SetSlot(slots, i, [loading |-> FALSE, song |-> <<song>>,
                                      error |-> Null])
       /\ newSongs' = Append(newSongs, song)
       /\ requests' = [requests EXCEPT ![i] = "fulfilled"]
       /\ UNCHANGED <<entryId, isGenerating, genPc, songsBefore>>
       /\ UNCHANGED <<routeId, loading, orphans, nextId, lastResponse, lastReply>>
       /\ UNCHANGED <<toolVars, chatVars, storeVars, durationVars, deleteVars,
                    viewerVars>>

\* every promise has settled
AllSettled == \A k \in 1..Len(requests) : requests[k] # "pending"

\* handleGenerate awaiting Promise.all: it goes on only when every request
\* has resolved
Finish_all ==
  /\ genPc = "awaiting"
  /\ \A k \in 1..Len(requests) : requests[k] = "fulfilled"
  /\ isGenerating' = FALSE
  /\ slots' = <<>>
  /\ genPc' = "idle"
  /\ UNCHANGED <<entryId, newSongs, requests, nextSong, songsBefore>>
  /\ UNCHANGED <<appVars, durationVars, deleteVars, viewerVars>>

\* handleGenerate after await Promise.allSettled(promises)
Finish ==
  /\ genPc = "awaiting"
  /\ AllSettled
  /\ isGenerating' = FALSE
  /\ slots' = <<>>
  /\ genPc' = "idle"
  /\ UNCHANGED <<entryId, newSongs, requests, nextSong, songsBefore>>
  /\ UNCHANGED <<appVars, durationVars, deleteVars, viewerVars>>

ResolveSome == \E i \in 1..Len(requests) : Resolve(i)
RejectSome == \E i \in 1..Len(requests) : Reject(i)

NextSongs ==
  \/ Generate
  \/ ResolveSome
  \/ RejectSome
  \/ Finish

SpecSongs == InitSongs /\ [][NextSongs]_vars

\* the continuation of a settled Promise.allSettled is run
SpecSongsLive == SpecSongs /\ WF_vars(Finish)

(***************************************************************************)
(* Image session view and fullscreen viewer.  A generation is a record     *)
(* with id and stepId, an item a record with id, generationId and deleted. *)
(* Generations and items are held in the order of their insertion.         *)
(***************************************************************************)

\* stepIds of the generations of a session, in the order of insertion
StepSeqs == { <<>>, <<1>>, <<1, 2>>, <<2, 1>>, <<2, 2>>, <<1, 2, 2>> }

\* the items of one generation: how many, and whether the first is deleted
ItemShapes ==
  { <<c, d>> : c \in 0..MaxItems, d \in BOOLEAN } \ { <<0, TRUE>> }

GenerationId(k) == "gen-" \o ToString(k)

GenerationsOf(steps) ==
  [k \in 1..Len(steps) |-> [id |-> GenerationId(k), stepId |-> steps[k]]]

ItemsOfGeneration(k, shape) ==
  [j \in 1..shape[1] |->
     [ id |-> "item-" \o ToString(k) \o "-" \o ToString(j),
       generationId |-> GenerationId(k),
       deleted |-> (shape[2] /\ j = 1) ]]

RECURSIVE ItemsOf(_, _)
ItemsOf(shapes, k) ==
  IF k > Len(shapes) THEN <<>>
  ELSE ItemsOfGeneration(k, shapes[k]) \o ItemsOf(shapes, k + 1)

\* (best, g) => g.stepId > best.stepId ? g : best, in MainPane
newerInPane(best, g) == IF g.stepId > best.stepId THEN g ELSE best

\* generations.reduce(...) of MainPane, from the element k on
RECURSIVE reduceInPane(_, _, _)
reduceInPane(generations, k, best) ==
  IF k > Len(generations) THEN best
  ELSE reduceInPane(generations, k + 1, newerInPane(best, generations[k]))

\* what MainPane renders: <<>> stands for the empty state
latestItems(generations, items) ==
  IF Len(generations) = 0 THEN <<>>
  ELSE LET latestGeneration == reduceInPane(generations, 2, generations[1])
       IN SelectSeq(items,
            LAMBDA item :
              item.generationId = latestGeneration.id /\ ~item.deleted)

newerInViewer_lastWins(best, g) == IF g.stepId >= best.stepId THEN g ELSE best

\* (best, g) => g.stepId > best.stepId ? g : best, in the viewer
newerInViewer(best, g) == IF g.stepId > best.stepId THEN g ELSE best

\* generations.reduce(...) of getLatestGenerationItems, from the element k on
RECURSIVE reduceInViewer(_, _, _)
reduceInViewer(generations, k, best) ==
  IF k > Len(generations) THEN best
  ELSE reduceInViewer(generations, k + 1, newerInViewer(best, generations[k]))

getLatestGenerationItems(generations, allItems) ==
  IF Len(generations) = 0 THEN <<>>
  ELSE LET latest == reduceInViewer(generations, 2, generations[1])
       IN SelectSeq(allItems,
            LAMBDA item : item.generationId = latest.id /\ ~item.deleted)

buildList(mode, allItems, generations) ==
  LET nonDeleted == SelectSeq(allItems, LAMBDA item : ~item.deleted)
  IN IF mode = "current"
     THEN getLatestGenerationItems(generations, nonDeleted)
     ELSE nonDeleted

\* list.findIndex((item) => item.id === id): an index from 0, or -1
findIndex(list, id) ==
  IF \E k \in 1..Len(list) : list[k].id = id
  THEN (CHOOSE k \in 1..Len(list) :
          /\ list[k].id = id
          /\ \A j \in 1..(k - 1) : list[j].id # id) - 1
  ELSE -1

\* the allItems prop: the non-deleted items of the session
AllItems == SelectSeq(imageItems, LAMBDA item : ~item.deleted)

\* activeList of the mounted viewer
ActiveList == buildList(listMode, AllItems, imageGenerations)

\* Math.min(currentIndex, activeList.length - 1)
safeIndex ==
  IF currentIndex < Len(ActiveList) - 1
  THEN currentIndex ELSE Len(ActiveList) - 1

\* the viewer renders something: activeList.length > 0
Rendered == viewerOpen /\ Len(ActiveList) > 0

\* activeList[safeIndex], the image on the screen
CurrentItem == ActiveList[safeIndex + 1]

ListModes == {"all", "current"}

\* a session with some generations and items; no viewer is mounted
InitViewer ==
  /\ AppIdle
  /\ shotDuration = DEFAULT_VIDEO_DURATION
  /\ modelDurations = <<>>
  /\ snapped = <<>>
  /\ page = "home"
  /\ scriptRows = <<>>
  /\ scriptsShown = <<>>
  /\ confirmDelete = {}
  /\ sessionRows = <<>>
  /\ sessionsShown = <<>>
  /\ pendingSession = Null
  /\ entryId = Null
  /\ slots = <<>>
  /\ isGenerating = FALSE
  /\ newSongs = <<>>
  /\ requests = <<>>
  /\ genPc = "idle"
  /\ nextSong = 1
  /\ songsBefore = 0
  /\ \E steps \in StepSeqs :
       \E shapes \in [1..Len(steps) -> ItemShapes] :
         /\ imageGenerations = GenerationsOf(steps)
         /\ imageItems = ItemsOf(shapes, 1)
  /\ viewerOpen = FALSE
  /\ initialItem = Null
  /\ listMode = "current"
  /\ currentIndex = 0
  /\ lastKey = "none"

\* an image of the session view is clicked: the viewer is mounted with
\* listMode "current" and currentIndex from the initializer of useState
OpenViewer ==
  /\ ~viewerOpen
  /\ \E k \in 1..Len(AllItems) :
       LET list == buildList("current", AllItems, imageGenerations)
           idx == findIndex(list, AllItems[k].id)
       IN /\ initialItem' = AllItems[k].id
          /\ currentIndex' = IF idx >= 0 THEN idx ELSE 0
  /\ viewerOpen' = TRUE
  /\ listMode' = "current"
  /\ lastKey' = "open"
  /\ UNCHANGED <<imageGenerations, imageItems>>
  /\ UNCHANGED <<appVars, durationVars, deleteVars, songVars>>

\* onClose: Escape, the close button or the backdrop; the viewer is
\* unmounted and its state is dropped
CloseViewer ==
  /\ viewerOpen
  /\ viewerOpen' = FALSE
  /\ initialItem' = Null
  /\ listMode' = "current"
  /\ currentIndex' = 0
  /\ lastKey' = "close"
  /\ UNCHANGED <<imageGenerations, imageItems>>
  /\ UNCHANGED <<appVars, durationVars, deleteVars, songVars>>

\* a tab button of the rendered viewer is clicked
handleListModeChange(newMode) ==
  /\ Rendered
  /\ listMode' = newMode
  /\ IF currentIndex < Len(ActiveList)
     THEN LET currentItem == ActiveList[currentIndex + 1]
              newList == buildList(newMode, AllItems, imageGenerations)
              newIdx == findIndex(newList, currentItem.id)
          IN currentIndex' = IF newIdx >= 0 THEN newIdx ELSE 0
     ELSE currentIndex' = 0
  /\ lastKey' = "mode"
  /\ UNCHANGED <<imageGenerations, imageItems, viewerOpen, initialItem>>
  /\ UNCHANGED <<appVars, durationVars, deleteVars, songVars>>

goToPrev_noWrap ==
  /\ viewerOpen
  /\ IF Len(ActiveList) <= 1
     THEN UNCHANGED currentIndex
     ELSE currentIndex' = IF currentIndex = 0 THEN 0 ELSE currentIndex - 1
  /\ lastKey' = "prev"
  /\ UNCHANGED <<imageGenerations, imageItems, viewerOpen, initialItem,
                 listMode>>
  /\ UNCHANGED <<appVars, durationVars, deleteVars, songVars>>

\* ArrowLeft, or the previous button
goToPrev ==
  /\ viewerOpen
  /\ IF Len(ActiveList) <= 1
     THEN UNCHANGED currentIndex
     ELSE currentIndex' =
            (currentIndex - 1 + Len(ActiveList)) % Len(ActiveList)
  /\ lastKey' = "prev"
  /\ UNCHANGED <<imageGenerations, imageItems, viewerOpen, initialItem,
                 listMode>>
  /\ UNCHANGED <<appVars, durationVars, deleteVars, songVars>>

\* ArrowRight, or the next button
goToNext ==
  /\ viewerOpen
  /\ IF Len(ActiveList) <= 1
     THEN UNCHANGED currentIndex
     ELSE currentIndex' = (currentIndex + 1) % Len(ActiveList)
  /\ lastKey' = "next"
  /\ UNCHANGED <<imageGenerations, imageItems, viewerOpen, initialItem,
                 listMode>>
  /\ UNCHANGED <<appVars, durationVars, deleteVars, songVars>>

SwitchListMode == \E newMode \in ListModes : handleListModeChange(newMode)

NextViewer ==
  \/ OpenViewer
  \/ CloseViewer
  \/ SwitchListMode
  \/ goToPrev
  \/ goToNext

SpecViewer == InitViewer /\ [][NextViewer]_vars

(***************************************************************************)
(* Properties.  In a state with pc = "applied", script is the script the   *)
(* call was applied to and result the script applyToolCall returned.       *)
(***************************************************************************)
Applied(toolName) == pc = "applied" /\ lastTool = toolName

IsStr(v) == TypeOf(v) = "string"
IsBool(v) == TypeOf(v) = "boolean"

\* the shot ids of a shot list are pairwise distinct
DistinctIds(shots) ==
  \A i, j \in 1..Len(shots) : shots[i].id = shots[j].id => i = j

\* a sequence without its k-th element
RemoveAt(seq, k) == SubSeq(seq, 1, k - 1) \o SubSeq(seq, k + 1, Len(seq))

\* C1: a call whose tool name is not one of the seven defined tools returns
\* the script unchanged, whatever the script and the arguments.
C1_UnknownToolIsNoOp ==
  (pc = "applied" /\ lastTool \notin CHAT_TOOLS) => result = script

C1_Witness ==
  /\ pc = "applied"
  /\ lastTool = "nonexistent_tool"
  /\ Get(lastArgs, "narrationEnabled") = Bool(TRUE)
  /\ script.settings.narrationEnabled = FALSE
  /\ Len(script.shots) = 2
  /\ result = script

\* the call lacks a required argument or carries one of the wrong type
\* (string expected for shotId, prompt, title; boolean for subtitles; an
\* array for shotIds)
RequiredArgInvalid ==
  \/ /\ lastTool = "update_shot_prompt"
     /\ ~IsStr(Get(lastArgs, "shotId")) \/ ~IsStr(Get(lastArgs, "prompt"))
  \/ /\ lastTool = "update_shot_narration"
     /\ ~IsStr(Get(lastArgs, "shotId"))
  \/ /\ lastTool = "update_shot_subtitles"
     /\ ~IsStr(Get(lastArgs, "shotId")) \/ ~IsBool(Get(lastArgs, "subtitles"))
  \/ /\ lastTool = "add_shot"
     /\ ~IsStr(Get(lastArgs, "title")) \/ ~IsStr(Get(lastArgs, "prompt"))
  \/ /\ lastTool = "delete_shot"
     /\ ~IsStr(Get(lastArgs, "shotId"))
  \/ /\ lastTool = "reorder_shots"
     /\ ~IsArray(Get(lastArgs, "shotIds"))

\* C2: for each tool with required arguments, a call in which a required
\* argument is missing or is not of the required type (string, boolean,
\* array) returns the script unchanged.
C2_InvalidRequiredArgIsNoOp ==
  (pc = "applied" /\ RequiredArgInvalid) => result = script

C2_Witness ==
  /\ Applied("add_shot")
  /\ Get(lastArgs, "title") = Undefined
  /\ Get(lastArgs, "prompt") = Str("p1")
  /\ Get(lastArgs, "afterShotId") = Str("s1")
  /\ Len(script.shots) = 2
  /\ result = script

\* C3: reorder_shots never loses a shot: starting from pairwise distinct
\* shot ids, every shot of the script appears exactly once in the result.
C3_ReorderKeepsEveryShot ==
  (Applied("reorder_shots") /\ DistinctIds(script.shots)) =>
    \A i \in 1..Len(script.shots) :
      Cardinality({j \in 1..Len(result.shots) :
                     result.shots[j] = script.shots[i]}) = 1

\* the strings of a shotIds array, as ids
StringIds(l) ==
  LET IsString(v) == TypeOf(v) = "string"
      strs == SelectSeq(l, IsString)
  IN [i \in 1..Len(strs) |-> strs[i].str]

\* a shotIds list with a duplicate id, an id of no shot, or an id missing
Malformed(ids, sc) ==
  \/ \E i, j \in 1..Len(ids) : i # j /\ ids[i] = ids[j]
  \/ \E i \in 1..Len(ids) : ids[i] \notin IdsOf(sc)
  \/ \E x \in IdsOf(sc) : \A i \in 1..Len(ids) : ids[i] # x

\* C4: reorder_shots rejects every malformed list: a list with a duplicate
\* id, an id that matches no shot, or a missing id leaves the script
\* unchanged.
C4_MalformedReorderIsNoOp ==
  (/\ Applied("reorder_shots")
   /\ IsArray(Get(lastArgs, "shotIds"))
   /\ Malformed(StringIds(Get(lastArgs, "shotIds").arr), script)) => result = script

\* the ids of a list that are ids of shots of the script, in list order
FilterPresent(ids, sc) ==
  LET Present(x) == x \in IdsOf(sc)
  IN SelectSeq(ids, Present)

\* C5: if reorder_shots changes the script, the result has as many shots
\* as the script had and their ids are the ids of the list filtered to
\* those present in the script; if the filtered count differs from the
\* shot count the script is returned unchanged.
C5_ReorderCountAndOrder ==
  (Applied("reorder_shots") /\ IsArray(Get(lastArgs, "shotIds"))) =>
    LET filtered == FilterPresent(StringIds(Get(lastArgs, "shotIds").arr), script)
    IN /\ result # script =>
            /\ Len(result.shots) = Len(script.shots)
            /\ ShotIds(result.shots) = filtered
       /\ Len(filtered) # Len(script.shots) => result = script

C5_Witness ==
  /\ Applied("reorder_shots")
  /\ Get(lastArgs, "shotIds") = Arr(<<Str("s2"), Str("s1")>>)
  /\ ShotIds(script.shots) = <<"s1", "s2">>
  /\ ShotIds(result.shots) = <<"s2", "s1">>

\* C6: shot ids stay pairwise distinct: from a script with distinct shot
\* ids, every sequence of applyToolCall calls yields distinct shot ids.
C6_ShotIdsStayDistinct ==
  DistinctIds(script.shots) /\ DistinctIds(result.shots)

\* C7: add_shot with string title and prompt adds exactly one shot with
\* that title and prompt: right after the shot whose id is afterShotId if
\* the script has such a shot, at the end otherwise; the shots the script
\* had keep their content and order.
C7_AddShotPosition ==
  (Applied("add_shot") /\ IsStr(Get(lastArgs, "title")) /\ IsStr(Get(lastArgs, "prompt"))) =>
    LET after == Get(lastArgs, "afterShotId")
        present == IsStr(after) /\ after.str \in IdsOf(script)
    IN /\ Len(result.shots) = Len(script.shots) + 1
       /\ \E k \in 1..Len(result.shots) :
            /\ RemoveAt(result.shots, k) = script.shots
            /\ result.shots[k].title = Get(lastArgs, "title").str
            /\ result.shots[k].prompt = Get(lastArgs, "prompt").str
            /\ result.shots[k].id = lastId
            /\ present => (k > 1 /\ result.shots[k - 1].id = after.str)
            /\ ~present => k = Len(result.shots)

C7_Witness ==
  /\ Applied("add_shot")
  /\ Get(lastArgs, "afterShotId") = Str("s1")
  /\ ShotIds(script.shots) = <<"s1", "s2">>
  /\ ShotIds(result.shots) = <<"s1", lastId, "s2">>

\* C8: the shot add_shot creates takes its defaults from the settings the
\* script has at the call: narration.enabled, narration.audioSource and
\* subtitles mirror the settings, duration is 8, narration text is empty,
\* no video is selected and the video history is empty.
C8_AddShotDefaults ==
  (Applied("add_shot") /\ IsStr(Get(lastArgs, "title")) /\ IsStr(Get(lastArgs, "prompt"))) =>
    \E k \in 1..Len(result.shots) :
      /\ RemoveAt(result.shots, k) = script.shots
      /\ result.shots[k].id = lastId
      /\ result.shots[k].narration.enabled = script.settings.narrationEnabled
      /\ result.shots[k].narration.audioSource = script.settings.defaultAudio
      /\ result.shots[k].narration.text = ""
      /\ result.shots[k].subtitles = script.settings.subtitles
      /\ result.shots[k].duration = 8
      /\ result.shots[k].video.selectedUrl = Null
      /\ result.shots[k].video.history = <<>>

\* an add_shot after an earlier update_script_settings turned narration on
C8_Witness ==
  /\ Applied("add_shot")
  /\ calls = 2
  /\ script.settings.narrationEnabled = TRUE
  /\ script.settings.subtitles = FALSE
  /\ script.settings.defaultAudio = "elevenlabs"
  /\ Len(result.shots) = Len(script.shots) + 1
  /\ result.shots[Len(result.shots)].narration.enabled = TRUE
  /\ result.shots[Len(result.shots)].subtitles = FALSE

\* the script outside its shot list is the same in both
SameOutsideShots(a, b) == [a EXCEPT !.shots = <<>>] = [b EXCEPT !.shots = <<>>]

\* C9: update_shot_prompt with string shotId and prompt replaces only the
\* prompt of the shots whose id matches; every other field of those shots,
\* every other shot, the order, title and settings are unchanged, and with
\* no matching shot the script is unchanged.
C9_UpdatePromptFrame ==
  (Applied("update_shot_prompt") /\ IsStr(Get(lastArgs, "shotId"))
     /\ IsStr(Get(lastArgs, "prompt"))) =>
    /\ SameOutsideShots(result, script)
    /\ Len(result.shots) = Len(script.shots)
    /\ \A i \in 1..Len(script.shots) :
         IF script.shots[i].id = Get(lastArgs, "shotId").str
         THEN /\ result.shots[i].prompt = Get(lastArgs, "prompt").str
              /\ [result.shots[i] EXCEPT !.prompt = ""]
                   = [script.shots[i] EXCEPT !.prompt = ""]
         ELSE result.shots[i] = script.shots[i]
    /\ Get(lastArgs, "shotId").str \notin IdsOf(script) => result = script

C9_Witness ==
  /\ Applied("update_shot_prompt")
  /\ Get(lastArgs, "shotId") = Str("s2")
  /\ Get(lastArgs, "prompt") = Str("p1")
  /\ ShotIds(script.shots) = <<"s1", "s2">>
  /\ script.shots[2].prompt = "p0"
  /\ result.shots[2].prompt = "p1"
  /\ result.shots[1] = script.shots[1]

\* C10: update_shot_narration with a string shotId sets each of enabled,
\* text, audioSource that is provided (with a value of its type) and keeps
\* each that is not provided; the other fields of the shot, the other
\* shots and the rest of the script are unchanged.
C10_NarrationMerge ==
  (Applied("update_shot_narration") /\ IsStr(Get(lastArgs, "shotId"))) =>
    /\ SameOutsideShots(result, script)
    /\ Len(result.shots) = Len(script.shots)
    /\ \A i \in 1..Len(script.shots) :
         IF script.shots[i].id # Get(lastArgs, "shotId").str
         THEN result.shots[i] = script.shots[i]
         ELSE LET old == script.shots[i].narration
                  new == result.shots[i].narration
                  none == [enabled |-> FALSE, text |-> "", audioSource |-> ""]
              IN /\ [result.shots[i] EXCEPT !.narration = none]
                      = [script.shots[i] EXCEPT !.narration = none]
                 /\ Get(lastArgs, "enabled") = Undefined => new.enabled = old.enabled
                 /\ IsBool(Get(lastArgs, "enabled")) => new.enabled = Get(lastArgs, "enabled").bool
                 /\ Get(lastArgs, "text") = Undefined => new.text = old.text
                 /\ IsStr(Get(lastArgs, "text")) => new.text = Get(lastArgs, "text").str
                 /\ Get(lastArgs, "audioSource") = Undefined
                      => new.audioSource = old.audioSource
                 /\ (IsStr(Get(lastArgs, "audioSource"))
                       /\ Get(lastArgs, "audioSource").str \in AudioSource)
                      => new.audioSource = Get(lastArgs, "audioSource").str

C10_Witness ==
  /\ Applied("update_shot_narration")
  /\ Get(lastArgs, "shotId") = Str("s2")
  /\ Get(lastArgs, "enabled") = Undefined
  /\ Get(lastArgs, "text") = Str("hi")
  /\ Get(lastArgs, "audioSource") = Undefined
  /\ ShotIds(script.shots) = <<"s1", "s2">>
  /\ script.shots[2].narration
       = [enabled |-> TRUE, text |-> "old", audioSource |-> "elevenlabs"]
  /\ result.shots[2].narration
       = [enabled |-> TRUE, text |-> "hi", audioSource |-> "elevenlabs"]

KeptIndices(shots, id) == {i \in 1..Len(shots) : shots[i].id # id}

\* C12: delete_shot with a string shotId removes the shots with that id
\* and nothing else: the remaining shots keep their content and their
\* relative order, the rest of the script is unchanged, and with no
\* matching shot the script is unchanged.
C12_DeleteRemovesExactly ==
  (Applied("delete_shot") /\ IsStr(Get(lastArgs, "shotId"))) =>
    LET id == Get(lastArgs, "shotId").str
        kept == KeptIndices(script.shots, id)
        Pos(i) == Cardinality({j \in kept : j <= i})
    IN /\ SameOutsideShots(result, script)
       /\ Len(result.shots) = Cardinality(kept)
       /\ \A i \in kept : result.shots[Pos(i)] = script.shots[i]
       /\ id \notin IdsOf(script) => result = script

C12_Witness ==
  /\ Applied("delete_shot")
  /\ Get(lastArgs, "shotId") = Str("s1")
  /\ Len(script.shots) = 3
  /\ script.shots[1].id = "s1"
  /\ script.shots[2].id = "s2"
  /\ script.shots[3].id # "s1"
  /\ result.shots = <<script.shots[2], script.shots[3]>>

\* the definition of a tool of CHAT_TOOLS
ToolDef(name) == CHOOSE t \in ToolDefinitions : t.name = name

\* the value has the property's type; the elements of an array are not
\* looked at
TopTypeOK(p, v) == IF p.type = "array" THEN IsArray(v) ELSE TypeOf(v) = p.type

\* the value has the property's type, and every element of an array the
\* items type
WellTyped(p, v) ==
  /\ TopTypeOK(p, v)
  /\ IF p.type = "array" /\ IsArray(v)
     THEN \A i \in 1..Len(v.arr) : TypeOf(v.arr[i]) = p.items
     ELSE TRUE

\* the supplied arguments whose value has not the type the tool declares
WrongTyped(toolName, args) ==
  {k \in DOMAIN args \cap DOMAIN ToolDef(toolName).properties :
     ~WellTyped(ToolDef(toolName).properties[k], args[k])}

SchemaAccepts(p, v) ==
  /\ WellTyped(p, v)
  /\ p.enum # {} => v.str \in p.enum

\* values the schema accepts for a property
Samples(p) ==
  CASE p.enum # {} -> {Str(e) : e \in p.enum}
    [] p.type = "string" -> {Str("s1"), Str("s2")}
    [] p.type = "boolean" -> {Bool(TRUE), Bool(FALSE)}
    [] p.type = "array" -> {Arr(<<Str("s2"), Str("s1")>>)}

\* scripts and argument maps the agreement of schema and dispatch is probed
\* with: the initial scripts that have shots, and every map that gives
\* some of the tool's properties a value the schema accepts
ProbeScripts == {sc \in InitScripts : sc.shots # <<>>}
ProbeId == generateId(1000, FirstEntropy)
ProbeArgs(def) ==
  UNION { {a \in [K -> UNION {Samples(def.properties[k]) : k \in K}] :
             \A k \in K : a[k] \in Samples(def.properties[k])} :
          K \in SUBSET DOMAIN def.properties }
AllProbeArgs == UNION {ProbeArgs(def) : def \in ToolDefinitions}

\* the argument map with the argument k given the value v
WithArg(a, k, v) == [x \in DOMAIN a \cup {k} |-> IF x = k THEN v ELSE a[x]]
\* the argument map without the argument k
WithoutArg(a, k) == [x \in DOMAIN a \ {k} |-> a[x]]
\* the argument map with the elements the items type excludes removed
\* from its arrays
WithoutBadItems(def, a) ==
  [k \in DOMAIN a |->
     IF k \in DOMAIN def.properties /\ def.properties[k].type = "array"
          /\ IsArray(a[k])
     THEN LET Good(v) == TypeOf(v) = def.properties[k].items
          IN Arr(SelectSeq(a[k].arr, Good))
     ELSE a[k]]

\* the absence of the argument makes applyToolCall return the script
AbsenceIsNoOp(def, k) ==
  \A sc \in ProbeScripts, a \in ProbeArgs(def) :
    k \notin DOMAIN a => applyToolCall(sc, def.name, a, ProbeId) = sc

\* supplying the value for the argument changes what applyToolCall returns
HasEffect(def, k, v) ==
  \E sc \in ProbeScripts, a \in ProbeArgs(def) :
    /\ k \notin DOMAIN a
    /\ applyToolCall(sc, def.name, WithArg(a, k, v), ProbeId)
         # applyToolCall(sc, def.name, a, ProbeId)

\* schema and dispatch agree on the probes: the names with an effect are
\* the names of CHAT_TOOLS, the required arguments are those whose absence
\* is a no-op, some value of each declared type and every value of an enum
\* changes the result.  The probes do not depend on the state.
ProbesAgree ==
  /\ \A n \in CHAT_TOOLS \cup UnknownNames :
       n \in CHAT_TOOLS <=>
         \E sc \in ProbeScripts, a \in AllProbeArgs :
           applyToolCall(sc, n, a, ProbeId) # sc
  /\ \A def \in ToolDefinitions : \A k \in DOMAIN def.properties :
       /\ k \in def.required <=> AbsenceIsNoOp(def, k)
       /\ \E v \in Samples(def.properties[k]) : HasEffect(def, k, v)
       /\ \A e \in def.properties[k].enum : HasEffect(def, k, Str(e))

\* C14: the tool definitions and the dispatch agree.  A tool name has an
\* effect if and only if it is one of the seven names of CHAT_TOOLS; an
\* argument is in the definition's required list if and only if its
\* absence makes applyToolCall return the script unchanged; values of the
\* declared type and every value of the enum are taken, and a value the
\* schema does not accept (other type, string outside the enum, element of
\* shotIds that is not a string) is treated as if it were absent.
C14_SchemaMatchesDispatch ==
  /\ calls = 0 => ProbesAgree
  /\ (pc = "applied" /\ result # script) => lastTool \in CHAT_TOOLS
  /\ (pc = "applied" /\ lastTool \in CHAT_TOOLS) =>
       LET def == ToolDef(lastTool)
           clean == WithoutBadItems(def, lastArgs)
       IN /\ def.required \ DOMAIN lastArgs # {} => result = script
          /\ result = applyToolCall(script, lastTool, clean, lastId)
          /\ \A k \in DOMAIN clean \cap DOMAIN def.properties :
               ~SchemaAccepts(def.properties[k], clean[k]) =>
                 result = applyToolCall(script, lastTool,
                                        WithoutArg(clean, k), lastId)

C14_Witness ==
  /\ Applied("update_shot_narration")
  /\ Get(lastArgs, "shotId") = Str("s1")
  /\ Get(lastArgs, "enabled") = Bool(TRUE)
  /\ Get(lastArgs, "text") = Num
  /\ Get(lastArgs, "audioSource") = Str("elevenlabs")
  /\ ShotIds(script.shots) = <<"s1", "s2">>
  /\ script.shots[1].narration
       = [enabled |-> FALSE, text |-> "", audioSource |-> "video"]
  /\ result.shots[1].narration
       = [enabled |-> TRUE, text |-> "", audioSource |-> "elevenlabs"]

\* the script after the calls have been applied one after the other, from
\* left to right, the i-th with the i-th id
RECURSIVE FoldCalls(_, _, _)
FoldCalls(sc, toolCalls, ids) ==
  IF toolCalls = <<>>
  THEN sc
  ELSE FoldCalls(applyToolCall(sc, Head(toolCalls).name, Head(toolCalls).args,
                               Head(ids)),
                 Tail(toolCalls), Tail(ids))

\* C15: the tool calls of one response are applied in the order received,
\* each to the script the previous one produced: after k calls the script
\* is the left-to-right fold of applyToolCall over the first k calls,
\* starting from the script the response found, and after the last call
\* the fold over the whole list.
C15_ResponseIsFold ==
  /\ Len(usedIds) <= Len(response)
  /\ script = FoldCalls(base, SubSeq(response, 1, Len(usedIds)), usedIds)

C15_Witness ==
  /\ Len(response) = 2
  /\ Len(usedIds) = 2
  /\ response[1].name = "add_shot"
  /\ response[2].name = "delete_shot"
  /\ ShotIds(base.shots) = <<"s1", "s2">>
  /\ ShotIds(script.shots) = <<"s2", usedIds[1]>>

\* the position of the message with the given id in the messages, which
\* are kept in the order of their creation; 0 if there is none
IndexOfMessage(st, id) ==
  IF id \in MessageIds(st)
  THEN CHOOSE i \in 1..Len(st.messages) : st.messages[i].id = id
  ELSE 0

\* every message but the first references the one created before it
IsChain(msgs) ==
  \A i \in 1..Len(msgs) :
    msgs[i].parentId = IF i = 1 THEN Null ELSE msgs[i - 1].id

\* C16: getAncestors(id) is the parent chain of the message, root first:
\* it starts with a root, every later element is the child of the one
\* before it, the last element is the message with the given id, and the
\* elements come in the order of their creation; when the stored messages
\* are one chain of N messages, getAncestors of the last one is exactly
\* those N messages; for an id that matches no message it is empty.
C16_AncestorsRootFirst ==
  /\ \A id \in MessageIds(storage) :
       LET path == getAncestors(storage, id)
       IN /\ path # <<>>
          /\ path[Len(path)].id = id
          /\ path[1].parentId = Null
          /\ \A i \in 1..Len(path) :
               /\ getMessage(storage, path[i].id) = <<path[i]>>
               /\ i > 1 => path[i].parentId = path[i - 1].id
               /\ i > 1 => IndexOfMessage(storage, path[i - 1].id)
                              < IndexOfMessage(storage, path[i].id)
  /\ (storage.messages # <<>> /\ IsChain(storage.messages)) =>
       getAncestors(storage, storage.messages[Len(storage.messages)].id)
         = storage.messages
  /\ getAncestors(storage, "no-such-id") = <<>>

C16_Witness ==
  /\ Len(storage.messages) = 6
  /\ IsChain(storage.messages)
  /\ storage.messages[6].id = NewId(4)
  /\ Len(getAncestors(storage, NewId(4))) = 6
  /\ getAncestors(storage, NewId(4))[1].id = "fixture-msg-1u"
  /\ getAncestors(storage, NewId(2))
       = SubSeq(storage.messages, 1, 4)

\* C17: the messages form a forest after any sequence of creations of the
\* lyrics flow: ids are unique, so that a parentId names at most one
\* parent; every parentId that is not null is the id of a message created
\* before the child; and no message is met twice on the way to the root.
C17_MessagesFormForest ==
  LET msgs == storage.messages
  IN /\ \A i, j \in 1..Len(msgs) : msgs[i].id = msgs[j].id => i = j
     /\ \A i \in 1..Len(msgs) :
          \/ msgs[i].parentId = Null
          \/ \E j \in 1..(i - 1) : msgs[j].id = msgs[i].parentId
     /\ \A i \in 1..Len(msgs) :
          LET path == getAncestors(storage, msgs[i].id)
          IN \A a, b \in 1..Len(path) : path[a].id = path[b].id => a = b

C17_Witness ==
  /\ Len(storage.messages) = 5
  /\ storage.messages[3].id = NewId(1)
  /\ storage.messages[3].parentId = Null
  /\ storage.messages[4].role = "user"
  /\ storage.messages[4].parentId = NewId(1)
  /\ storage.messages[5].role = "assistant"
  /\ storage.messages[5].parentId = NewId(2)
  /\ routeId = NewId(3)

\* the text has the frontmatter shape: it begins with a "---" line, and a
\* further "---" line closes a header block of at least one line
HasFrontmatterShape(text) ==
  /\ Len(text) >= 3
  /\ text[1] = Delim
  /\ \E j \in 3..Len(text) : text[j] = Delim

\* C20: a response without the frontmatter shape is not an error: the
\* assistant message is created all the same, with the raw response text
\* as content and the user message as parent, and it has none of the
\* lyrics fields title, style, commentary, lyricsBody.
C20_ParseFailureKeepsRaw ==
  lastReply # Null =>
    LET got == getMessage(storage, lastReply)
    IN /\ got # <<>>
       /\ got[1].role = "assistant"
       /\ got[1].content = Join(lastResponse)
       /\ got[1].deleted = FALSE
       /\ LET parent == getMessage(storage, got[1].parentId)
          IN /\ parent # <<>>
             /\ parent[1].role = "user"
       /\ ~HasFrontmatterShape(lastResponse)
            => DOMAIN got[1] \cap LyricsFields = {}

C20_Witness ==
  /\ lastReply = NewId(2)
  /\ routeId = NewId(2)
  /\ lastResponse = << Delim, Field("title", "Unclosed"), Line("la la") >>
  /\ getMessage(storage, NewId(2)) =
       << [ id |-> NewId(2), role |-> "assistant",
            content |-> "---\ntitle: Unclosed\nla la",
            parentId |-> NewId(1), createdAt |-> Now(2),
            deleted |-> FALSE ] >>
  /\ getMessage(storage, NewId(1))[1].role = "user"

C23_SettingsReachEveryShot ==
  Applied("update_script_settings") =>
    /\ TypeOf(Get(lastArgs, "narrationEnabled")) = "boolean" =>
         \A i \in 1..Len(result.shots) :
           result.shots[i].narration.enabled =
             Get(lastArgs, "narrationEnabled").bool
    /\ TypeOf(Get(lastArgs, "subtitles")) = "boolean" =>
         \A i \in 1..Len(result.shots) :
           result.shots[i].subtitles = Get(lastArgs, "subtitles").bool

(***************************************************************************)
(* C29.  Every tool except add_shot is idempotent: applying the call a     *)
(* second time, to the script the first application returned, returns that *)
(* script again, for every script and every argument map.                  *)
(***************************************************************************)
IdempotentTools == CHAT_TOOLS \ {"add_shot"}

C29_Idempotent ==
  (pc = "applied" /\ lastTool \in IdempotentTools) =>
    applyToolCall(result, lastTool, lastArgs, lastId) = result

\* a call has changed the script, and the second application of the same
\* call has changed nothing more
C29_Witness ==
  /\ Applied("reorder_shots")
  /\ result # script
  /\ applyToolCall(result, lastTool, lastArgs, lastId) = result

(***************************************************************************)
(* C30.  For a non-empty list closestDuration returns an element of the    *)
(* list whose distance to the target is minimal, the longer one when two   *)
(* elements are equally far, whatever the order of the list; for an empty  *)
(* list it returns the target.                                             *)
(***************************************************************************)
\* the lists with the elements of seq in another order
Reorderings(seq) ==
  { [i \in 1..Len(seq) |-> seq[f[i]]] :
      f \in { g \in [1..Len(seq) -> 1..Len(seq)] :
                \A a, b \in 1..Len(seq) : g[a] = g[b] => a = b } }

C30_ClosestDuration ==
  snapped # <<>> =>
    LET r == snapped[1]
        n == Len(modelDurations)
    IN IF n = 0
       THEN r = shotDuration
       ELSE /\ \E i \in 1..n : modelDurations[i] = r
            /\ \A i \in 1..n :
                 Abs(shotDuration - r) <= Abs(shotDuration - modelDurations[i])
            /\ \A i \in 1..n :
                 Abs(shotDuration - modelDurations[i]) = Abs(shotDuration - r)
                   => modelDurations[i] <= r
            /\ \A l \in Reorderings(modelDurations) :
                 closestDuration(shotDuration, l) = r

\* two durations are equally far from the target, the longer one comes
\* first in the list, and it is the one returned
C30_Witness ==
  /\ snapped # <<>>
  /\ Len(modelDurations) >= 2
  /\ \E i, j \in 1..Len(modelDurations) :
       /\ i < j
       /\ modelDurations[i] > modelDurations[j]
       /\ Abs(shotDuration - modelDurations[i])
            = Abs(shotDuration - modelDurations[j])
       /\ snapped[1] = modelDurations[i]
       /\ \A k \in 1..Len(modelDurations) :
            Abs(shotDuration - modelDurations[k])
              >= Abs(shotDuration - modelDurations[i])

(***************************************************************************)
(* C27.  A lyrics chat submit only appends to the message forest.  Every   *)
(* step keeps the messages that exist as they are.  The submit creates one *)
(* user message, child of the open message or a root when none is open,    *)
(* and the page then waits for the model with that message stored; a reply *)
(* creates one assistant message whose parent is that user message; a      *)
(* failed call creates nothing.                                            *)
(***************************************************************************)
\* the messages of the next state that the current state does not hold
AddedMessages ==
  SubSeq(storage'.messages, Len(storage.messages) + 1, Len(storage'.messages))

\* the message the page shows: <<m>>, or <<>> on /lyrics/new and on an id
\* that no message has
OpenMessage ==
  IF routeId = Null THEN <<>> ELSE getMessage(storage, routeId)

C27_SubmitStep ==
  /\ Len(storage'.messages) >= Len(storage.messages)
  /\ SubSeq(storage'.messages, 1, Len(storage.messages)) = storage.messages
  \* the submit
  /\ (loading = Null /\ loading' # Null) =>
       /\ Len(AddedMessages) = 1
       /\ AddedMessages[1].id = loading'
       /\ AddedMessages[1].role = "user"
       /\ AddedMessages[1].parentId =
            (IF OpenMessage = <<>> THEN Null ELSE OpenMessage[1].id)
  \* the reply or the failure, on the page that waits
  /\ (loading # Null /\ loading' = Null /\ orphans' = orphans) =>
       \/ /\ Len(AddedMessages) = 1
          /\ AddedMessages[1].role = "assistant"
          /\ AddedMessages[1].parentId = loading
          /\ routeId' = AddedMessages[1].id
       \/ /\ Len(AddedMessages) = 0
          /\ routeId' = loading
  \* the reply to a page that was left
  /\ (orphans' # orphans /\ loading' = loading) =>
       /\ Len(AddedMessages) = 1
       /\ AddedMessages[1].role = "assistant"
       /\ AddedMessages[1].parentId \in orphans \ orphans'
  \* while the page waits, the user message is stored
  /\ loading' # Null =>
       /\ getMessage(storage', loading') # <<>>
       /\ getMessage(storage', loading')[1].role = "user"

C27_SubmitOnlyAppends == [][C27_SubmitStep]_vars

\* a user message created as child of an open message has got its reply,
\* and another submit has failed and left its user message without one
C27_Witness ==
  /\ loading = Null
  /\ lastReply # Null
  /\ \E i, j, k \in 1..Len(storage.messages) :
       LET u == storage.messages[i]
           a == storage.messages[j]
           f == storage.messages[k]
       IN /\ u.role = "user" /\ u.parentId # Null
          /\ a.role = "assistant" /\ a.parentId = u.id /\ a.id = lastReply
          /\ f.role = "user" /\ f.id = routeId /\ f.id # u.id
          /\ \A l \in 1..Len(storage.messages) :
               storage.messages[l].parentId # f.id

(***************************************************************************)
(* C26.  Deletion goes through a confirmation step.  A lyrics message, a   *)
(* video script or an image session is deleted only by Confirm in the      *)
(* dialog its delete request opened; opening the dialog and Cancel leave   *)
(* the storage and the list shown as they are, and after Cancel no         *)
(* deletion waits for confirmation.                                        *)
(***************************************************************************)
DialogOpen == ~NoDialog

\* the storage and the lists shown stay as they are
ListsUntouched ==
  /\ storage' = storage
  /\ scriptRows' = scriptRows
  /\ sessionRows' = sessionRows
  /\ allEntries' = allEntries
  /\ scriptsShown' = scriptsShown
  /\ sessionsShown' = sessionsShown

C26_DeleteStep ==
  \* a message is flagged only by Confirm on the dialog opened for it
  /\ storage' # storage =>
       /\ pendingDeleteId # Null
       /\ answer' = "confirm"
       /\ storage' = updateMessage(storage, pendingDeleteId, [deleted |-> TRUE])
       /\ allEntries' = WithoutRow(allEntries, pendingDeleteId)
  /\ scriptRows' # scriptRows =>
       /\ confirmDelete # {}
       /\ answer' = "confirm"
       /\ \E id \in confirmDelete :
            /\ scriptRows' = WithoutRow(scriptRows, id)
            /\ scriptsShown' = WithoutRow(scriptsShown, id)
  /\ sessionRows' # sessionRows =>
       /\ pendingSession # Null
       /\ answer' = "confirm"
       /\ sessionRows' = WithoutRow(sessionRows, pendingSession)
       /\ sessionsShown' = WithoutRow(sessionsShown, pendingSession)
  \* the list of the mounted page changes with the storage only
  /\ (page' = page /\ storage' = storage /\ scriptRows' = scriptRows
        /\ sessionRows' = sessionRows) => ListsUntouched
  \* the delete button opens the dialog and does nothing else
  /\ (NoDialog /\ DialogOpen') => ListsUntouched
  \* Confirm and Cancel close the dialog; Cancel does nothing else
  /\ (DialogOpen /\ page' = page) =>
       \/ answer' = "confirm" /\ NoDialog' /\ ~ListsUntouched
       \/ answer' = "cancel" /\ NoDialog' /\ ListsUntouched

SongsOfBatch == SubSeq(storage.songs, songsBefore + 1, Len(storage.songs))

\* the requests in the given state
RequestsIn(state) == {i \in 1..Len(requests) : requests[i] = state}

\* the title of the song the i-th request persists
BatchTitle(i) == TakeTitle(getMessage(storage, entryId)[1], i)

C21_PartialFailure ==
  /\ Len(SongsOfBatch) = Cardinality(RequestsIn("fulfilled"))
  /\ \A i \in 1..Len(requests) :
       Cardinality({k \in 1..Len(SongsOfBatch) :
                      SongsOfBatch[k].title = BatchTitle(i)})
         = (IF requests[i] = "fulfilled" THEN 1 ELSE 0)
  /\ genPc = "awaiting" =>
       /\ Len(slots) = Len(requests)
       /\ \A i \in 1..Len(requests) :
            /\ slots[i].error # Null <=> requests[i] = "rejected"
            /\ slots[i].loading <=> requests[i] = "pending"
            /\ slots[i].song # <<>> <=> requests[i] = "fulfilled"
            /\ slots[i].song # <<>> =>
                 /\ slots[i].song[1].title = BatchTitle(i)
                 /\ \E k \in 1..Len(SongsOfBatch) :
                      SongsOfBatch[k] = slots[i].song[1]

\* the second request has failed, then the third and after it the first
\* have succeeded
C21_Witness ==
  /\ genPc = "awaiting"
  /\ Len(requests) = 3
  /\ requests = <<"fulfilled", "rejected", "fulfilled">>
  /\ Len(SongsOfBatch) = 2
  /\ SongsOfBatch[1].title = BatchTitle(3)
  /\ SongsOfBatch[2].title = BatchTitle(1)

(***************************************************************************)
(* C28.  A Generate Songs action always finishes.  While a request is      *)
(* pending the generating flag is true; once every request has settled, by *)
(* success or by failure, the flag returns to false and the slots are      *)
(* cleared.                                                                *)
(***************************************************************************)
C28_GenerateFinishes ==
  /\ [](RequestsIn("pending") # {} => isGenerating)
  /\ (genPc = "awaiting" /\ AllSettled)
       ~> (~isGenerating /\ slots = <<>> /\ genPc = "idle")

\* a Generate action of which one request failed and one succeeded has
\* finished
C28_Witness ==
  /\ genPc = "idle"
  /\ ~isGenerating
  /\ slots = <<>>
  /\ RequestsIn("rejected") # {}
  /\ RequestsIn("fulfilled") # {}


\* the generation with the largest stepId and, among those with that
\* stepId, the one inserted first
LatestIndex ==
  CHOOSE k \in 1..Len(imageGenerations) :
    /\ \A j \in 1..Len(imageGenerations) :
         imageGenerations[j].stepId <= imageGenerations[k].stepId
    /\ \A j \in 1..(k - 1) :
         imageGenerations[j].stepId < imageGenerations[k].stepId

\* the non-deleted items of that generation, in the order of the session
ItemsOfLatest ==
  SelectSeq(imageItems,
    LAMBDA item :
      item.generationId = imageGenerations[LatestIndex].id /\ ~item.deleted)

\* C22: the latest generation of a session is the one with the maximum
\* stepId, the first inserted of those when several share the maximum; the
\* main pane and the "Current" list of the viewer both hold exactly the
\* non-deleted items of that generation (and nothing when the session has
\* no generation).
C22_LatestGeneration ==
  LET pane == latestItems(imageGenerations, imageItems)
      current == buildList("current", AllItems, imageGenerations)
  IN IF imageGenerations = <<>>
     THEN pane = <<>> /\ current = <<>>
     ELSE /\ pane = ItemsOfLatest
          /\ current = ItemsOfLatest
          /\ (viewerOpen /\ listMode = "current") => ActiveList = ItemsOfLatest

\* the viewer shows its Current list for a session in which two generations
\* share the maximum stepId after an older one, the first of the two has a
\* deleted item and a shown one, and the second has a shown item
C22_Witness ==
  /\ Rendered
  /\ listMode = "current"
  /\ LatestIndex > 1
  /\ \E j \in (LatestIndex + 1)..Len(imageGenerations) :
       /\ imageGenerations[j].stepId = imageGenerations[LatestIndex].stepId
       /\ \E n \in 1..Len(imageItems) :
            /\ imageItems[n].generationId = imageGenerations[j].id
            /\ ~imageItems[n].deleted
  /\ \E n \in 1..Len(imageItems) :
       /\ imageItems[n].generationId = imageGenerations[LatestIndex].id
       /\ imageItems[n].deleted

\* C24: right after the viewer was opened by a click on an image, the image
\* on the screen is the image clicked (initialItem), whichever generation
\* it belongs to.
C24_OpensOnClicked ==
  (viewerOpen /\ lastKey = "open") =>
    (Rendered /\ CurrentItem.id = initialItem)

\* a step of the rendered viewer with more than one image in its list: the
\* list is kept, next goes one image on and from the last to the first,
\* previous one image back and from the first to the last
C25_NavStep ==
  (Rendered /\ Len(ActiveList) > 1 /\ lastKey' \in {"next", "prev"}) =>
    /\ ActiveList' = ActiveList
    /\ lastKey' = "next" =>
         safeIndex' = IF safeIndex = Len(ActiveList) - 1
                      THEN 0 ELSE safeIndex + 1
    /\ lastKey' = "prev" =>
         safeIndex' = IF safeIndex = 0
                      THEN Len(ActiveList) - 1 ELSE safeIndex - 1

\* C25: navigation of the viewer is cyclic and stays in range: whatever
\* next, previous and list-mode inputs came, the position shown is one of
\* 1..N of the active list (and currentIndex needs no clamping), and with
\* N > 1 next from the last image shows the first, previous from the first
\* shows the last.
C25_CyclicInRange ==
  /\ [](Rendered =>
          /\ safeIndex + 1 \in 1..Len(ActiveList)
          /\ currentIndex = safeIndex)
  /\ [][C25_NavStep]_vars

\* the All list holds more than one image and next has just gone from its
\* last image to its first
C25_Witness ==
  /\ Rendered
  /\ listMode = "all"
  /\ Len(ActiveList) > 1
  /\ lastKey = "next"
  /\ safeIndex = 0

====
